---- MODULE Spec2Model ----
(***************************************************************************)
(* Model of the bug-scan-to-fix agent: the Issue record and its identity   *)
(* (analyzer/multiLangIssueAnalyzer.py), the report normalizer             *)
(* (MultiLangIssueAnalyzer.analyze_reports), the repair client             *)
(* (fixer/auto_fixer.py), the validation dispatcher                        *)
(* (validator/validator.py) and the orchestrator (core/engine.py).         *)
(*                                                                         *)
(* The specifications of the module:                                       *)
(*   SpecIssue  Issue.__eq__ / Issue.__hash__ on pairs of Issue records    *)
(*   SpecNorm   analyze_reports on a list of raw reports                   *)
(*   SpecTwice  analyze_reports called twice on the same list              *)
(*   SpecVal    Validator.run_tests on one Issue in one environment        *)
(*   Spec       run.py main and BugFixEngine.run: per issue apply_fix,     *)
(*              run_tests, add_item; then Reporter.write and the exit      *)
(*   FairSpec   Spec with the steps of the run taken as long as one is due *)
(*   SpecAgain  run() called again on the same BugFixEngine                *)
(***************************************************************************)
EXTENDS Integers, Sequences, FiniteSets, TLC

VARIABLES
    \* ---- SpecIssue
    e_a, e_b,       \* the two Issue records
    e_compared,     \* TRUE once __eq__ and __hash__ were evaluated on (e_a, e_b)
    e_eq,           \* result of e_a == e_b
    e_ha, e_hb,     \* results of hash(e_a), hash(e_b)
    \* ---- SpecNorm
    n_reports,      \* json_reports, the input list
    n_key,          \* DASHSCOPE_API_KEY is set
    n_run,          \* which of the two calls of analyze_reports is running
    n_pc,           \* position in analyze_reports
    n_ri,           \* index of the report being processed (1-based)
    n_items,        \* the items of the report being processed
    n_pending,      \* futures submitted and not yet completed (item indices)
    n_attempt,      \* per pending item: loop counter of analyze_bug
    n_parsed,       \* parsed_issues of _parse_custom_report
    n_all,          \* all_issues
    n_res,          \* returned sequences of the calls made so far
    n_made,         \* ghost: per report, the Issues its items produced
    \* ---- SpecDetect
    d_pc,           \* "ready" before the worker runs on the item, "ended" after
    d_item,         \* the raw item, but for the text of its buggy_code
    d_text,         \* the text of the item's buggy_code
    d_lang,         \* language of the Issue the worker built
    \* ---- SpecRetry
    t_pc,           \* "ready" before the two calls are entered, "run" after
    t_key,          \* DASHSCOPE_API_KEY is set
    t_hist,         \* ghost: the oracle's answers so far, in order
    t_a,            \* analyze_bug: loop counter, returned, value, requests posted
    t_f,            \* _call_llm: loop counter, returned, value, requests posted
    t_out,          \* what the worker made of analyze_bug's value
    \* ---- SpecPool
    p_pc,           \* "pool" inside the with block of _parse_custom_report, "closed" after
    p_total,        \* number of items of the report
    p_sub,          \* items submitted to the executor so far
    p_queue,        \* submitted items no worker thread has taken yet
    p_threads,      \* worker threads of the executor
    p_proc,         \* items inside process_single_item, outside analyze_bug
    p_call,         \* items inside analyze_bug
    p_done,         \* items whose future is completed
    \* ---- SpecHang
    h_pc,           \* "loop" between requests, "wait" and "hung" inside one, "ended"
    h_kind,         \* which external call: "repair", "explain", "cpp", "java"
    h_att,          \* loop counter of the oracle call
    h_hist,         \* ghost: how the requests made so far ended
    h_ret,          \* what the call returned ("" while it runs)
    \* ---- SpecExtract
    x_pc,           \* "ready" before _extract_code_block is called, "ended" after
    x_text,         \* the oracle's text
    x_out,          \* what _extract_code_block returned for it
    x_again,        \* what _extract_code_block returned for x_out
    \* ---- SpecVal
    v_pc,           \* "ready" before run_tests is called, "ended" after
    v_issue,        \* the Issue handed to run_tests
    v_env,          \* what the surroundings do during the call
    v_res,          \* how the call ended, what it did and what it left behind
    \* ---- Spec
    max_iterations, \* BugFixEngine.max_iterations
    run_no,         \* ghost: number of run() calls begun on this engine
    pc,             \* position in BugFixEngine.run
    issues,         \* the normalized Issues of the run
    idx,            \* index of the Issue being processed (1-based)
    attempt,        \* loop counter of AutoFixer._call_llm
    requests,       \* ghost: session.post calls of the current _call_llm
    onlyRetry,      \* ghost: every response of the current call was 429 or an exception
    llm_ret,        \* ghost: what the last _call_llm returned ("pending" while running)
    apply_ret,      \* ghost: how the last apply_fix ended
    validated,      \* ghost: indices of the Issues run_tests was called for
    raised_at,      \* ghost: index of the Issue whose step raised (0: none)
    exc,            \* ghost: class of the exception that left run ("" : none)
    fix_calls,      \* ghost: per Issue, the calls of apply_fix
    val_calls,      \* ghost: per Issue, the calls of run_tests
    val_ret,        \* ghost: how the last run_tests ended
    items,          \* Reporter.items
    fixed, failed,  \* the counters of run
    summary,        \* the summary Reporter.write built in this run
    run_ret,        \* what run() returned
    exit_code       \* exit status of the process (-1 while it runs)
\* Text that the code takes apart (code strings, oracle answers, patches) is a
\* sequence of fragments, <<>> being the empty string; other strings are atoms.

evars == <<e_a, e_b, e_compared, e_eq, e_ha, e_hb>>
nvars == <<n_reports, n_key, n_run, n_pc, n_ri, n_items, n_pending, n_attempt,
           n_parsed, n_all, n_res, n_made>>
dvars == <<d_pc, d_item, d_text, d_lang>>
tvars == <<t_pc, t_key, t_hist, t_a, t_f, t_out>>
pvars == <<p_pc, p_total, p_sub, p_queue, p_threads, p_proc, p_call, p_done>>
hvars == <<h_pc, h_kind, h_att, h_hist, h_ret>>
xvars == <<x_pc, x_text, x_out, x_again>>
ovars == <<dvars, tvars, pvars, hvars, xvars>>
vvars == <<v_pc, v_issue, v_env, v_res>>
rvars == <<max_iterations, run_no, pc, issues, idx, attempt, requests, onlyRetry,
           llm_ret, apply_ret, validated, raised_at, exc, fix_calls, val_calls,
           val_ret, items, fixed, failed, summary, run_ret, exit_code>>
vars == <<evars, nvars, vvars, rvars, ovars>>

-----------------------------------------------------------------------------
(* Issue: the dataclass and its identity                                    *)

\* The seven identity fields, in the order of the tuple that __hash__ builds.
IdentityFields ==
    <<"language", "slug", "description", "constraints", "buggy_code",
      "bug_type", "bug_message">>

\* The identity tuple of __hash__.
IdentityKey(i) == [k \in 1..Len(IdentityFields) |-> i[IdentityFields[k]]]

\* Issue.__eq__ as the dataclass would generate it: all eight fields.
IssueEqAllFields(a, b) == a = b

\* Issue.__eq__: isinstance(other, Issue) and the seven comparisons.
IssueEq(a, b) ==
    /\ a.language = b.language
    /\ a.slug = b.slug
    /\ a.description = b.description
    /\ a.constraints = b.constraints
    /\ a.buggy_code = b.buggy_code
    /\ a.bug_type = b.bug_type
    /\ a.bug_message = b.bug_message

\* hash() of a str: the strings of the model, numbered.
StrPool ==
    <<"", "python", "cpp", "java", "javascript", "Unknown", "a", "b",
      "d1", "d2", "c1", "c2", "x", "y", "t1", "t2", "m1", "m2", "p", "q">>

StrHash(s) ==
    IF \E k \in 1..Len(StrPool) : StrPool[k] = s
    THEN CHOOSE k \in 1..Len(StrPool) : StrPool[k] = s
    ELSE 0

\* Width of the modelled hash values: small, so that unequal tuples collide.
HashMod == 64

RECURSIVE TupleHash(_, _)
TupleHash(t, k) ==
    IF k = 0 THEN 7
    ELSE (TupleHash(t, k - 1) * 31 + StrHash(t[k])) % HashMod

\* Issue.__hash__: hash of the identity tuple.
IssueHash(i) == TupleHash(IdentityKey(i), Len(IdentityFields))

\* The Issue records SpecIssue compares: two values per field.
EqIssues ==
    [language : {"python", "cpp"}, slug : {"a", "b"},
     description : {"d1", "d2"}, constraints : {"c1", "c2"},
     buggy_code : {"x", "y"}, bug_type : {"t1", "t2"},
     bug_message : {"m1", "m2"}, fixed_code : {<<>>, <<"p">>}]

-----------------------------------------------------------------------------
(* Raw report items and the values of their fields                          *)

\* A key the item does not carry (item.get returns its default, or None).
Absent == "<absent>"
\* A JSON number where a string is expected; str() of it is "5".
Num5 == "<number 5>"

\* bool(v) of a raw field value.
Truthy(v) == v \notin {Absent, ""}

\* a or b
PyOr(a, b) == IF Truthy(a) THEN a ELSE b

\* str(v)
PyStr(v) == IF v = Num5 THEN "5" ELSE IF v = Absent THEN "None" ELSE v

\* item.get(key, default)
GetOr(v, default) == IF v = Absent THEN default ELSE v

\* The values of the keys "type" and "bug_type": absent, a string or a list.
TAbsent == [t |-> "absent", v |-> <<>>]
TStr(s) == [t |-> "str", v |-> <<s>>]
TList(l) == [t |-> "list", v |-> l]

TTruthy(x) ==
    \/ x.t = "str" /\ x.v[1] # ""
    \/ x.t = "list" /\ Len(x.v) > 0

RECURSIVE JoinFrom(_, _)
JoinFrom(l, k) ==
    IF k > Len(l) THEN ""
    ELSE IF k = Len(l) THEN l[k]
    ELSE l[k] \o ", " \o JoinFrom(l, k + 1)

\* ", ".join(l) raises TypeError when an element is not a str.
JoinRaises(l) == \E k \in 1..Len(l) : l[k] \in {Num5, Absent}

\* An item with no key at all.
EmptyItem ==
    [dict |-> TRUE, slug |-> Absent, description |-> Absent,
     constraints |-> Absent, buggy_code |-> Absent, lang |-> Absent,
     language |-> Absent, type |-> TAbsent, bug_type |-> TAbsent,
     explanations |-> Absent, bug_message |-> Absent]

\* An entry of the report that is no mapping (a string, a number, a key).
NonDictItem == [EmptyItem EXCEPT !.dict = FALSE]

-----------------------------------------------------------------------------
(* The content classifier: MultiLangIssueAnalyzer._detect_language         *)

\* The text of the code strings of the model, as fragments in order.
Pad == "/* five hundred characters of comment */"

CodeText(code) ==
    CASE code = "" -> <<>>
      [] code = "x" -> <<"x = 1">>
      [] code = "y" -> <<"y = 2", ";">>
      [] code = "cppsrc" -> <<"#include <vector>", "\n", "using namespace std", ";">>
      [] code = "pysrc" -> <<"class Solution", ":", "\n", "def f(self">>
      [] code = "javasrc" -> <<"public class Main", "{", "System.out.", ";">>
      [] code = "late" -> <<Pad, "#include <vector>">>
      [] OTHER -> <<code>>

\* len() of a fragment.
FragLen(f) == IF f = Pad THEN 500 ELSE Len(f)

\* What a fragment contains, among the substrings and patterns looked for.
Marks(f) ==
    CASE f = "class Solution" -> {"class Solution"}
      [] f = ":" -> {":"}
      [] f = "\n" -> {"\n"}
      [] f = "def f(self" -> {"def(self"}
      [] f = "import " -> {"import "}
      [] f = "from " -> {"from "}
      [] f = ";" -> {";"}
      [] f = "#include <vector>" -> {"#include"}
      [] f = "using namespace std" -> {"using namespace std"}
      [] f = "public:" -> {"public:", ":"}
      [] f = "vector<int>" -> {"vector<"}
      [] f = "string" -> {"string"}
      [] f = "->" -> {"->"}
      [] f = "public class Main" -> {"public class"}
      [] f = "public int f(" -> {"public method("}
      [] f = "System.out." -> {"System.out."}
      [] f = "{" -> {"{"}
      [] OTHER -> {}

\* header = code[:500]
HeaderLimit == 500

RECURSIVE Offset(_, _)
Offset(text, k) == IF k <= 1 THEN 0 ELSE Offset(text, k - 1) + FragLen(text[k - 1])

\* The fragments that lie within the first 500 characters.
Header(text) ==
    LET n == Cardinality({k \in 1..Len(text) :
                            Offset(text, k) + FragLen(text[k]) <= HeaderLimit})
    IN  SubSeq(text, 1, n)

\* "m" in s
Has(text, m) == \E k \in 1..Len(text) : m \in Marks(text[k])

\* re.search(r'class\s+Solution.*:', header): a colon later on the same line.
ClassSolutionColon(h) ==
    \E i \in 1..Len(h) : \E j \in (i + 1)..Len(h) :
        /\ "class Solution" \in Marks(h[i])
        /\ ":" \in Marks(h[j])
        /\ \A k \in (i + 1)..(j - 1) : "\n" \notin Marks(h[k])

\* A classifier that tries the cpp rules before the python signatures.
DetectCppFirst(text) ==
    LET h == Header(text)
    IN  IF text = <<>> THEN "Unknown"
        ELSE IF Has(h, "#include") \/ Has(h, "using namespace std") THEN "cpp"
        ELSE IF Has(h, "public:") THEN "cpp"
        ELSE IF Has(h, "vector<") \/ (Has(h, "string") /\ Has(text, "->")) THEN "cpp"
        ELSE IF ClassSolutionColon(h) THEN "python"
        ELSE IF Has(h, "def(self") THEN "python"
        ELSE IF Has(h, "import ") /\ ~Has(h, ";") /\ Has(h, "from ") THEN "python"
        ELSE IF Has(h, "public class") THEN "java"
        ELSE IF Has(h, "public method(") /\ ~Has(h, "public:") THEN "java"
        ELSE IF Has(h, "System.out.") THEN "java"
        ELSE IF Has(h, ":") /\ ~Has(h, "{") /\ ~Has(h, ";") THEN "python"
        ELSE "Unknown"

\* _detect_language on the text of a str; the rules in the order of the code.
DetectInText(text) ==
    LET h == Header(text)
    IN  IF text = <<>> THEN "Unknown"
        ELSE IF ClassSolutionColon(h) THEN "python"
        ELSE IF Has(h, "def(self") THEN "python"
        ELSE IF Has(h, "import ") /\ ~Has(h, ";") /\ Has(h, "from ") THEN "python"
        ELSE IF Has(h, "#include") \/ Has(h, "using namespace std") THEN "cpp"
        ELSE IF Has(h, "public:") THEN "cpp"
        ELSE IF Has(h, "vector<") \/ (Has(h, "string") /\ Has(text, "->")) THEN "cpp"
        ELSE IF Has(h, "public class") THEN "java"
        ELSE IF Has(h, "public method(") /\ ~Has(h, "public:") THEN "java"
        ELSE IF Has(h, "System.out.") THEN "java"
        ELSE IF Has(h, ":") /\ ~Has(h, "{") /\ ~Has(h, ";") THEN "python"
        ELSE "Unknown"

\* _detect_language(code) for a str
DetectLanguage(code) == DetectInText(CodeText(code))

\* _detect_language raises TypeError on code[:500] when code is a number.
DetectRaises(code) == code = Num5

-----------------------------------------------------------------------------
(* process_single_item, the worker of _parse_custom_report                  *)

\* detected_lang = item.get("lang") or item.get("language")
ItemLang(item) == PyOr(item.lang, item.language)

\* if not detected_lang or detected_lang == "Unknown"
NeedsDetect(item) == ~Truthy(ItemLang(item)) \/ ItemLang(item) = "Unknown"

\* raw_type = item.get("type") or item.get("bug_type") or self.type
ItemRawType(item) ==
    IF TTruthy(item.type) THEN item.type
    ELSE IF TTruthy(item.bug_type) THEN item.bug_type
    ELSE TStr("General")

\* bug_type_str = ", ".join(raw_type) if isinstance(raw_type, list) else str(raw_type)
BugTypeStr(rt) == IF rt.t = "list" THEN JoinFrom(rt.v, 1) ELSE PyStr(rt.v[1])

\* bug_message = item.get("explanations") or item.get("bug_message")
ItemMessage(item) == PyOr(item.explanations, item.bug_message)

\* An exception inside the try block, before the explanation is asked for.
ItemRaises(item) ==
    \/ NeedsDetect(item) /\ DetectRaises(GetOr(item.buggy_code, ""))
    \/ ItemRawType(item).t = "list" /\ JoinRaises(ItemRawType(item).v)

\* ItemStage with an item that lacks its explanation given up instead of explained.
ItemStageNoExplain(item) ==
    IF ~item.dict THEN "none"
    ELSE IF ItemRaises(item) \/ ~Truthy(ItemMessage(item)) THEN "raise"
    ELSE "ready"

\* How far process_single_item gets without the oracle: "none" (not a dict),
\* "raise" (caught, returns None), "explain" (calls analyze_bug), "ready".
ItemStage(item) ==
    IF ~item.dict THEN "none"
    ELSE IF ItemRaises(item) THEN "raise"
    ELSE IF ~Truthy(ItemMessage(item)) THEN "explain"
    ELSE "ready"

\* A worker that asks the classifier whatever the item says.
AlwaysDetect(item, text) == DetectInText(text)

\* str(detected_lang) of an item whose buggy_code has the text given: the
\* item's tag, or what the classifier makes of the text.
IssueLanguage(item, text) ==
    IF NeedsDetect(item) THEN DetectInText(text) ELSE PyStr(ItemLang(item))

\* The Issue(...) the worker builds; msg is bug_message.
MakeIssue(item, msg) ==
    [language |-> IssueLanguage(item, CodeText(GetOr(item.buggy_code, ""))),
     slug |-> PyStr(GetOr(item.slug, "UnknownSlug")),
     description |-> PyStr(GetOr(item.description, "No description")),
     constraints |-> PyStr(GetOr(item.constraints, "No constraints")),
     buggy_code |-> PyStr(GetOr(item.buggy_code, "")),
     bug_type |-> BugTypeStr(ItemRawType(item)),
     bug_message |-> PyStr(msg),
     fixed_code |-> <<>>]

\* The worker's return value, as the list of what it contributes: <<>> for None.
\* explained is what analyze_bug returned, used when the item has no message.
ProcessSingleItem(item, explained) ==
    IF ItemStage(item) \in {"none", "raise"} THEN <<>>
    ELSE IF ItemStage(item) = "explain" THEN <<MakeIssue(item, explained)>>
    ELSE <<MakeIssue(item, ItemMessage(item))>>

-----------------------------------------------------------------------------
(* analyze_bug: the explanation call                                        *)

\* A 200 response whose body json() rejects or that lacks choices/message/content.
Malformed == "<malformed body>"

\* max_retries of analyze_bug
AnalyzeMaxRetries == 5

\* What the explanation oracle may answer to one request.
ExplainResponses ==
    {[status |-> "200", body |-> b] : b \in {"m1", "m2", Malformed}}
    \cup {[status |-> st, body |-> ""] : st \in {"429", "500", "exception"}}

\* analyze_bug's loop body where a 200 whose body cannot be used is tried again.
AnalyzeBugStepRetryBody(att, r) ==
    IF r.status = "200" /\ r.body # Malformed
    THEN [ret |-> TRUE, val |-> r.body]
    ELSE IF att + 1 < AnalyzeMaxRetries
    THEN [ret |-> FALSE, val |-> ""]
    ELSE [ret |-> TRUE, val |-> "Failed to analyze after retries"]

\* One pass of the loop body with loop counter att: either the call returns
\* val, or the loop goes on (every status but 200 is retried after a sleep).
AnalyzeBugStep(att, r) ==
    IF r.status = "200"
    THEN [ret |-> TRUE,
          val |-> IF r.body = Malformed THEN "Analysis format error" ELSE r.body]
    ELSE IF att + 1 < AnalyzeMaxRetries
    THEN [ret |-> FALSE, val |-> ""]
    ELSE [ret |-> TRUE, val |-> "Failed to analyze after retries"]

-----------------------------------------------------------------------------
(* analyze_reports: dedup and order                                         *)

\* Python's order on the slugs of the model.
SlugOrder == <<"5", "None", "UnknownSlug", "a", "b">>

SlugRank(s) ==
    IF \E k \in 1..Len(SlugOrder) : SlugOrder[k] = s
    THEN CHOOSE k \in 1..Len(SlugOrder) : SlugOrder[k] = s
    ELSE Len(SlugOrder) + 1

\* set.add with Issues taken as equal as soon as their slugs are.
SetAddBySlug(S, x) == IF \E e \in S : e.slug = x.slug THEN S ELSE S \cup {x}

\* set.add: x is dropped when an element with its hash that equals it is there.
SetAdd(S, x) ==
    IF \E e \in S : IssueHash(e) = IssueHash(x) /\ IssueEq(e, x) THEN S ELSE S \cup {x}

RECURSIVE SetOf(_, _)
\* set(all_issues): first seen wins.
SetOf(s, k) == IF k = 0 THEN {} ELSE SetAdd(SetOf(s, k - 1), s[k])

RECURSIVE Orders(_)
\* list(a set): the iteration order of a set follows the hashes and the
\* insertion history; any order of the elements can come out.
Orders(S) ==
    IF S = {} THEN {<<>>}
    ELSE UNION {{<<x>> \o t : t \in Orders(S \ {x})} : x \in S}

\* One step of sorted(): x goes behind the elements whose key is <= its key.
InsertByKey(t, x) ==
    LET n == Cardinality({j \in 1..Len(t) : SlugRank(t[j].slug) <= SlugRank(x.slug)})
    IN  SubSeq(t, 1, n) \o <<x>> \o SubSeq(t, n + 1, Len(t))

RECURSIVE SortedFrom(_, _)
SortedFrom(s, k) == IF k = 0 THEN <<>> ELSE InsertByKey(SortedFrom(s, k - 1), s[k])

\* The list left in the order the set gave it (no sort).
Unsorted(s) == s

\* sorted(unique_issues, key=lambda x: x.slug): stable, ascending by slug.
SortedBySlug(s) == SortedFrom(s, Len(s))

-----------------------------------------------------------------------------
(* AutoFixer: _call_llm, _extract_code_block, apply_fix                     *)

\* The value of data["choices"][0]["message"]["content"] of a 200 response:
\* a str (t = "str", v its text), null, a number, or a body that json() or the
\* subscripts reject.
StrBody(text) == [t |-> "str", v |-> text]
NullBody == [t |-> "null", v |-> <<>>]
NumBody == [t |-> "num", v |-> <<>>]
BadBody == [t |-> "malformed", v |-> <<>>]

\* The three backquotes that open and close a fenced block.
Fence == "<fence>"
Whitespace == {" ", "\n", "\r"}

\* The answers of the repair oracle used as inputs.
FixTexts ==
    {<<Fence, "python", "\n", "p", "\n", Fence>>,
     <<"fixed:", Fence, "\r", "\n", "p", Fence, "q">>,
     <<Fence, "\n", Fence>>,
     <<Fence, "java", "\n", "public class Main", "\n", Fence>>,
     <<"q", "\n">>,
     <<" ">>,
     <<>>}

FixBodies == {StrBody(x) : x \in FixTexts} \cup {NullBody, NumBody, BadBody}

FixResponses ==
    {[status |-> "200", body |-> b] : b \in FixBodies}
    \cup {[status |-> st, body |-> BadBody] : st \in {"429", "500", "exception"}}

\* max_retries of _call_llm
FixMaxRetries == 5

\* _call_llm's loop body where a 429 does not use up an attempt.
CallLlmStepFree429(att, r) ==
    IF r.status = "200"
    THEN [ret |-> TRUE, att |-> att,
          val |-> IF r.body.t = "malformed" THEN StrBody(<<>>) ELSE r.body]
    ELSE IF r.status = "429" THEN [ret |-> FALSE, att |-> att, val |-> StrBody(<<>>)]
    ELSE IF r.status = "exception"
    THEN [ret |-> att + 1 >= FixMaxRetries, att |-> att + 1, val |-> StrBody(<<>>)]
    ELSE [ret |-> TRUE, att |-> att, val |-> StrBody(<<>>)]

\* _call_llm's loop body where every status but 200 is tried again.
CallLlmStepRetryAll(att, r) ==
    IF r.status = "200"
    THEN [ret |-> TRUE, att |-> att,
          val |-> IF r.body.t = "malformed" THEN StrBody(<<>>) ELSE r.body]
    ELSE [ret |-> att + 1 >= FixMaxRetries, att |-> att + 1, val |-> StrBody(<<>>)]

\* One pass of the loop body of _call_llm with loop counter att and answer r:
\* the call returns val (ret), or the loop goes on with counter att.
CallLlmStep(att, r) ==
    IF r.status = "200"
    THEN [ret |-> TRUE, att |-> att,
          val |-> IF r.body.t = "malformed" THEN StrBody(<<>>) ELSE r.body]
    ELSE IF r.status \in {"429", "exception"}
    THEN [ret |-> att + 1 >= FixMaxRetries, att |-> att + 1, val |-> StrBody(<<>>)]
    ELSE [ret |-> TRUE, att |-> att, val |-> StrBody(<<>>)]

\* bool(x) of what _call_llm returned.
BodyTruthy(b) == b.t = "num" \/ (b.t = "str" /\ Len(b.v) > 0)

\* \w+ matches the whole fragment: not "fixed:", and of "c++" only the c.
IsWord(f) == f \notin Whitespace \cup {Fence, "fixed:", "c++"}

\* The pattern <fence>(?:\w+)?\r?\n matched at fragment i: the index of its \n, or 0.
FenceHead(text, i) ==
    IF i > Len(text) \/ text[i] # Fence THEN 0
    ELSE LET a == IF i + 1 <= Len(text) /\ IsWord(text[i + 1]) THEN i + 2 ELSE i + 1
             b == IF a <= Len(text) /\ text[a] = "\r" THEN a + 1 ELSE a
         IN  IF b <= Len(text) /\ text[b] = "\n" THEN b ELSE 0

\* (.*?)<fence> from fragment k on: the index of the closing fence, or 0.
FenceClose(text, k) ==
    IF \E j \in k..Len(text) : text[j] = Fence
    THEN CHOOSE j \in k..Len(text) :
            text[j] = Fence /\ \A m \in k..(j - 1) : text[m] # Fence
    ELSE 0

\* re.search: the leftmost position where the whole pattern matches, or 0.
FenceMatch(text) ==
    LET ok == {i \in 1..Len(text) :
                 FenceHead(text, i) > 0 /\ FenceClose(text, FenceHead(text, i) + 1) > 0}
    IN  IF ok = {} THEN 0 ELSE CHOOSE i \in ok : \A j \in ok : i <= j

\* str.strip()
Strip(text) ==
    LET keep == {k \in 1..Len(text) : text[k] \notin Whitespace}
    IN  IF keep = {} THEN <<>>
        ELSE SubSeq(text, CHOOSE k \in keep : \A j \in keep : k <= j,
                          CHOOSE k \in keep : \A j \in keep : k >= j)

\* _extract_code_block
ExtractCodeBlock(text) ==
    LET i == FenceMatch(text)
    IN  IF i > 0
        THEN Strip(SubSeq(text, FenceHead(text, i) + 1,
                          FenceClose(text, FenceHead(text, i) + 1) - 1))
        ELSE Strip(text)

\* apply_fix after _call_llm returned b: "True", "False", or "raise" when
\* re.search is handed a value that is no str (TypeError).
ApplyFixOutcome(b) ==
    IF ~BodyTruthy(b) THEN "False"
    ELSE IF b.t # "str" THEN "raise"
    ELSE "True"

-----------------------------------------------------------------------------
(* Validator: run_tests and the checks per language                         *)

\* issue.language.lower()
Lower(l) ==
    CASE l = "Python" -> "python"
      [] l = "C++" -> "c++"
      [] l = "Unknown" -> "unknown"
      [] l = "None" -> "none"
      [] OTHER -> l

\* sub in lang, for the language strings of the model
LangHas(lang, sub) ==
    CASE sub = "python" -> lang \in {"python", "python3"}
      [] sub = "cpp" -> lang = "cpp"
      [] sub = "c++" -> lang = "c++"
      [] sub = "java" -> lang \in {"java", "javascript"}
      [] OTHER -> FALSE

\* Which branch of run_tests a language takes.
Dispatch(language) ==
    LET lang == Lower(language)
    IN  IF LangHas(lang, "python") THEN "python"
        ELSE IF LangHas(lang, "cpp") \/ LangHas(lang, "c++") \/ lang = "c" THEN "cpp"
        ELSE IF LangHas(lang, "java") THEN "java"
        ELSE "other"

\* What the surroundings do during one validation: ast.parse, exec, which,
\* writing the temp file, launching the compiler, os.remove.
DefaultEnv ==
    [parse |-> "ok", exec |-> "ok", tool |-> TRUE, write |-> "ok",
     compile |-> "ok", remove |-> "ok"]

ValidatorEnvs ==
    {[DefaultEnv EXCEPT !.parse = p, !.exec = e] :
        p \in {"ok", "SyntaxError", "ValueError"},
        e \in {"ok", "NameError", "Exception", "SystemExit"}}
    \cup
    {[DefaultEnv EXCEPT !.tool = t, !.write = w, !.compile = c, !.remove = r] :
        t \in BOOLEAN, w \in {"ok", "OSError"},
        c \in {"ok", "CalledProcessError", "OSError"}, r \in {"ok", "OSError"}}

\* How a call of the validator ends: out is the verdict ("pass", "fail") or
\* "raise" with exc the class of the exception; ops are the steps it took, in
\* order; left counts the temp artifacts it created that still exist; file
\* is the name of the source file in the temp directory of _validate_java.
Ended(out, ops, left, e) ==
    [out |-> out, ops |-> ops, left |-> left, exc |-> e, file |-> ""]

\* _validate_python: what neither handler catches leaves the call (ast.parse
\* raising something other than SyntaxError; exec raising a BaseException
\* such as SystemExit).
ValidatePython(code, env) ==
    IF env.parse = "SyntaxError" THEN Ended("fail", <<"parse">>, 0, "")
    ELSE IF env.parse # "ok" THEN Ended("raise", <<"parse">>, 0, env.parse)
    ELSE IF env.exec = "ok" THEN Ended("pass", <<"parse", "exec">>, 0, "")
    ELSE IF env.exec = "NameError" THEN Ended("fail", <<"parse", "exec">>, 0, "")
    ELSE IF env.exec = "Exception" THEN Ended("pass", <<"parse", "exec">>, 0, "")
    ELSE Ended("raise", <<"parse", "exec">>, 0, env.exec)

\* _validate_cpp with the temp file written before g++ is looked for.
ValidateCppTempFirst(code, env) ==
    IF env.write # "ok" THEN Ended("raise", <<"mktemp", "write">>, 1, env.write)
    ELSE IF ~env.tool THEN Ended("pass", <<"mktemp", "write", "which">>, 1, "")
    ELSE LET left == IF env.remove = "ok" THEN 0 ELSE 1
             ops == <<"mktemp", "write", "which", "compile", "remove">>
         IN  IF env.compile = "ok" THEN Ended("pass", ops, left, "")
             ELSE IF env.compile = "CalledProcessError" THEN Ended("fail", ops, left, "")
             ELSE Ended("raise", ops, left, env.compile)

\* _validate_cpp: the file NamedTemporaryFile(delete=False) created is removed
\* by the finally block only; a failing f.write leaves the with block before
\* the try is entered.
ValidateCpp(code, env) ==
    IF ~env.tool THEN Ended("pass", <<"which">>, 0, "")
    ELSE IF env.write # "ok"
    THEN Ended("raise", <<"which", "mktemp", "write">>, 1, env.write)
    ELSE LET left == IF env.remove = "ok" THEN 0 ELSE 1
             ops == <<"which", "mktemp", "write", "compile", "remove">>
         IN  IF env.compile = "ok" THEN Ended("pass", ops, left, "")
             ELSE IF env.compile = "CalledProcessError" THEN Ended("fail", ops, left, "")
             ELSE Ended("raise", ops, left, env.compile)

\* re.search(r'public\s+class\s+(\w+)') or re.search(r'class\s+(\w+)') finds a name
HasClassName(code) == Has(code, "public class") \/ Has(code, "class Solution")

\* group(1) of class\s+(\w+) matched in a fragment, "" when it does not match.
ClassDecl(f) ==
    CASE f = "public class Main" -> "Main"
      [] f = "class Solution" -> "Solution"
      [] OTHER -> ""

\* The least of a set of positions that is not empty.
First(S) == CHOOSE k \in S : \A j \in S : k <= j

\* The name after the leftmost "class", public or not.
FirstClassName(code) ==
    LET any == {k \in 1..Len(code) : ClassDecl(code[k]) # ""}
    IN  IF any # {} THEN ClassDecl(code[First(any)]) ELSE ""

\* class_name: group(1) of the leftmost public\s+class\s+(\w+); without one,
\* of the leftmost class\s+(\w+); "" when neither pattern is found.
ClassName(code) ==
    LET pub == {k \in 1..Len(code) : "public class" \in Marks(code[k])}
        any == {k \in 1..Len(code) : ClassDecl(code[k]) # ""}
    IN  IF pub # {} THEN ClassDecl(code[First(pub)])
        ELSE IF any # {} THEN ClassDecl(code[First(any)])
        ELSE ""

\* _validate_java: mkdtemp, then open/write and javac inside the try whose
\* finally block removes the directory.
ValidateJava(code, env) ==
    IF ~env.tool THEN Ended("pass", <<"which">>, 0, "")
    ELSE IF ~HasClassName(code) THEN Ended("fail", <<"which", "classname">>, 0, "")
    ELSE LET left == IF env.remove = "ok" THEN 0 ELSE 1
             head == <<"which", "classname", "mktemp", "write">>
             res == IF env.write # "ok"
                    THEN Ended("raise", head \o <<"remove">>, left, env.write)
                    ELSE IF env.compile = "ok"
                    THEN Ended("pass", head \o <<"compile", "remove">>, left, "")
                    ELSE IF env.compile = "CalledProcessError"
                    THEN Ended("fail", head \o <<"compile", "remove">>, left, "")
                    ELSE Ended("raise", head \o <<"compile", "remove">>, left,
                               env.compile)
         IN  [res EXCEPT !.file = ClassName(code) \o ".java"]

\* run_tests without the test for an empty fixed_code.
RunTestsNoGuard(issue, env) ==
    IF Dispatch(issue.language) = "python" THEN ValidatePython(issue.fixed_code, env)
    ELSE IF Dispatch(issue.language) = "cpp" THEN ValidateCpp(issue.fixed_code, env)
    ELSE IF Dispatch(issue.language) = "java" THEN ValidateJava(issue.fixed_code, env)
    ELSE Ended("pass", <<>>, 0, "")

\* run_tests(issue)
RunTests(issue, env) ==
    IF issue.fixed_code = <<>> THEN Ended("fail", <<>>, 0, "")
    ELSE IF Dispatch(issue.language) = "python" THEN ValidatePython(issue.fixed_code, env)
    ELSE IF Dispatch(issue.language) = "cpp" THEN ValidateCpp(issue.fixed_code, env)
    ELSE IF Dispatch(issue.language) = "java" THEN ValidateJava(issue.fixed_code, env)
    ELSE Ended("pass", <<>>, 0, "")

-----------------------------------------------------------------------------
(* Reporter.add_item                                                        *)

\* detail without a "reason" key
NoReason == "<no reason>"

\* The payload add_item appends.
Payload(issue, status, reason) ==
    [slug |-> issue.slug, language |-> issue.language, bug_type |-> issue.bug_type,
     bug_message |-> issue.bug_message, description |-> issue.description,
     constraints |-> issue.constraints, buggy_code |-> issue.buggy_code,
     fixed_code |-> issue.fixed_code, status |-> status, detail |-> reason]

\* An add_item that puts the payload in front of the list.
AddItemFirst(its, payload) == <<payload>> \o its

\* self.items.append(payload)
AddItem(its, payload) == Append(its, payload)

\* No summary built (yet) in this run.
NoSummary == [total_issues |-> -1, total_fixed |-> -1, total_failed |-> -1]

\* The summary of Reporter.write(fixed, failed), its being the reporter's items.
Summary(its, fx, fl) ==
    [total_issues |-> Len(its), total_fixed |-> fx, total_failed |-> fl]

-----------------------------------------------------------------------------
(* What run() returns and what run.py makes of it                           *)

\* No value yet: the call has not returned (or an exception left it).
NoReturn == [t |-> "pending", v |-> <<>>]
\* The bare return of run() without a credential.
ReturnsNone == [t |-> "None", v |-> <<>>]
\* return fixed, failed, report_txt, report_json
ReturnsTuple(fx, fl) == [t |-> "tuple", v |-> <<fx, fl, "report_txt", "report_json">>]

\* The names on the left of "= engine.run(...)" in main.
UnpackTargets == 5

\* The exit status main ends with once run() returned ret: unpacking None
\* (TypeError) or a tuple of another length (ValueError) is caught by the
\* handler of main, which exits with 1; otherwise failed decides.
MainExit(ret) ==
    IF ret.t # "tuple" THEN 1
    ELSE IF Len(ret.v) # UnpackTargets THEN 1
    ELSE IF ret.v[2] > 0 THEN 1
    ELSE 0

\* The exit statuses a patch can pass to SystemExit.
PatchExitCodes == {0, 1}

\* The exit status when an exception of class e left run(): main catches
\* Exception only, so SystemExit ends the process with the status it carries.
MainExitRaised(e) == IF e = "SystemExit" THEN PatchExitCodes ELSE {1}

-----------------------------------------------------------------------------
(* Inputs                                                                   *)

ItemA ==
    [EmptyItem EXCEPT !.slug = "a", !.description = "d1", !.constraints = "c1",
                      !.buggy_code = "x", !.lang = "python", !.type = TStr("t1"),
                      !.explanations = "m1"]

\* The slug of ItemA, another snippet, no language tag, a list of types.
ItemA2 ==
    [EmptyItem EXCEPT !.slug = "a", !.description = "d1", !.constraints = "c1",
                      !.buggy_code = "cppsrc", !.bug_type = TList(<<"t1", "t2">>),
                      !.bug_message = "m1"]

\* No explanation: bug_message comes from analyze_bug.
ItemB ==
    [EmptyItem EXCEPT !.slug = "b", !.buggy_code = "y", !.language = "java"]

\* ", ".join raises on the number in the list.
ItemBadType ==
    [EmptyItem EXCEPT !.slug = "b", !.lang = "python", !.buggy_code = "x",
                      !.type = TList(<<"t1", Num5>>), !.explanations = "m1"]

\* No language tag and a buggy_code that is a number: the classifier raises.
ItemBadCode == [EmptyItem EXCEPT !.buggy_code = Num5, !.explanations = "m2"]

\* Only a snippet and a message: every other field takes its default.
ItemBare == [EmptyItem EXCEPT !.buggy_code = "pysrc", !.bug_message = "m2"]

\* A raw report: a text blob (blob) or a parsed value; parse tells what
\* json.loads makes of the blob: "invalid" (JSONDecodeError), "scalar" (a
\* number, true, null), "mapping" (an object keyed by name) or "list".
Report(blob, parse, its) == [blob |-> blob, parse |-> parse, items |-> its]

ReportPool ==
    {Report(TRUE, "invalid", <<>>),
     Report(TRUE, "scalar", <<>>),
     Report(TRUE, "mapping", <<ItemA>>),
     Report(FALSE, "list", <<ItemA, ItemA2>>),
     Report(TRUE, "list", <<ItemA, ItemA>>),
     Report(FALSE, "list", <<ItemBadType, ItemB>>),
     Report(TRUE, "list", <<NonDictItem, ItemBare, ItemA>>),
     Report(TRUE, "list", <<ItemBadCode, ItemA2>>)}

\* Longest list of reports handed to analyze_reports.
MaxReports == 2

ReportLists == UNION {[1..n -> ReportPool] : n \in 0..MaxReports}

\* The Issues handed to the orchestrator's loop.
EngineIssues ==
    {[language |-> l[1], slug |-> l[2], description |-> "d1", constraints |-> "c1",
      buggy_code |-> "x", bug_type |-> "t1", bug_message |-> "m1",
      fixed_code |-> <<>>] :
        l \in {<<"python", "a">>, <<"cpp", "a">>, <<"java", "b">>, <<"javascript", "b">>}}

\* Most Issues in one run.
MaxIssues == 2

\* max_iterations: 4 is the default of BugFixEngine, 3 the default of run.py.
MaxIterationsValues == {1, 3, 4}

\* Most calls of run() on one engine.
MaxRuns == 2

\* The start of a C++ snippet: "#include <vector>", a newline, "using
\* namespace std;".
CppPrefix == <<"#include <vector>", "\n", "using namespace std", ";">>

\* What may follow the start, fragment by fragment.
SuffixFragments ==
    {"\n", "class Solution", ":", "{", "def f(self", "public:", "x = 1", Pad}

\* Most fragments after the start.
MaxSuffix == 3

DetectTexts ==
    {CppPrefix \o t : t \in UNION {[1..n -> SuffixFragments] : n \in 0..MaxSuffix}}

\* The fragments the rules of the classifier look for, and one they do not.
FeatureFragments ==
    {"\n", "class Solution", ":", "{", ";", "def f(self", "import ", "from ",
     "#include <vector>", "using namespace std", "public:", "vector<int>",
     "string", "->", "public class Main", "public int f(", "System.out.",
     "x = 1", Pad}

\* Most fragments in a code string handed to the classifier.
MaxFragments == 3

ClassifyTexts == UNION {[1..n -> FeatureFragments] : n \in 0..MaxFragments}

\* What an answer of the repair oracle is made of: fences, language tags,
\* line ends and a line of code.
AnswerFragments == {Fence, "python", "c++", "\r", "\n", "p"}

\* Most fragments in an answer handed to _extract_code_block.
MaxAnswer == 6

ExtractTexts == UNION {[1..n -> AnswerFragments] : n \in 0..MaxAnswer}

\* Raw items without a language tag, with the tag "Unknown", with a tag
\* (a string, a number), and with the tag under the key "language" only.
DetectItems ==
    {[EmptyItem EXCEPT !.slug = "a", !.lang = t, !.explanations = "m1"] :
        t \in {Absent, "Unknown", "java", Num5}}
    \cup {[EmptyItem EXCEPT !.slug = "a", !.lang = "", !.language = "java",
                             !.explanations = "m1"]}

\* What the oracle may answer to one request, told apart by what the two
\* clients tell apart: the status, and for a 200 whether the content is a
\* text, null, or not to be had from the body.
OracleAnswers ==
    {[status |-> "200", content |-> c] : c \in {"text", "null", "malformed"}}
    \cup {[status |-> st, content |-> ""] : st \in {"429", "500", "exception"}}

\* The answer as analyze_bug receives it.
ExplainAnswer(k) ==
    [status |-> k.status,
     body |-> CASE k.content = "text" -> "m1"
                [] k.content = "null" -> Absent
                [] k.content = "malformed" -> Malformed
                [] OTHER -> ""]

\* The answer as _call_llm receives it.
FixAnswer(k) ==
    [status |-> k.status,
     body |-> CASE k.content = "text" -> StrBody(<<"q", "\n">>)
                [] k.content = "null" -> NullBody
                [] OTHER -> BadBody]

\* Most items in a report handed to the pool.
MaxItems == 12

\* The language tags and patches run_tests is called with.
ValLanguages ==
    {"python", "Python", "cpp", "C++", "c", "java", "javascript", "Unknown", "go"}

ValCodes ==
    {<<>>, <<"p">>, <<"public class Main">>, <<"q", "\n">>, <<"class Solution">>,
     <<"class Solution", "\n", "public class Main">>}

ValIssues ==
    {[language |-> l, slug |-> "a", description |-> "d1", constraints |-> "c1",
      buggy_code |-> "x", bug_type |-> "t1", bug_message |-> "m1",
      fixed_code |-> c] : l \in ValLanguages, c \in ValCodes}

\* What analyze_reports can return: sorted by slug, no two equal.
IssueLists ==
    UNION {{s \in [1..n -> EngineIssues] :
              /\ \A i \in 1..(n - 1) : SlugRank(s[i].slug) <= SlugRank(s[i + 1].slug)
              /\ \A i, j \in 1..n : i < j => ~IssueEq(s[i], s[j])} : n \in 0..MaxIssues}

-----------------------------------------------------------------------------
(* Initial states                                                           *)

EIdle ==
    /\ e_a = [language |-> "python", slug |-> "a", description |-> "d1",
              constraints |-> "c1", buggy_code |-> "x", bug_type |-> "t1",
              bug_message |-> "m1", fixed_code |-> <<>>]
    /\ e_b = e_a
    /\ e_compared = FALSE
    /\ e_eq = FALSE
    /\ e_ha = 0
    /\ e_hb = 0

NIdle ==
    /\ n_reports = <<>>
    /\ n_key = TRUE
    /\ n_run = 0
    /\ n_pc = "off"
    /\ n_ri = 0
    /\ n_items = <<>>
    /\ n_pending = {}
    /\ n_attempt = <<>>
    /\ n_parsed = <<>>
    /\ n_all = <<>>
    /\ n_res = <<>>
    /\ n_made = <<>>

VIdle ==
    /\ v_pc = "off"
    /\ v_issue = [language |-> "python", slug |-> "a", description |-> "d1",
                  constraints |-> "c1", buggy_code |-> "x", bug_type |-> "t1",
                  bug_message |-> "m1", fixed_code |-> <<>>]
    /\ v_env = DefaultEnv
    /\ v_res = Ended("none", <<>>, 0, "")

DIdle ==
    /\ d_pc = "off"
    /\ d_item = EmptyItem
    /\ d_text = <<>>
    /\ d_lang = ""

\* Neither call entered: no request posted, nothing returned.
CallAtStart(v) == [att |-> 0, ret |-> FALSE, val |-> v, reqs |-> 0]

TIdle ==
    /\ t_pc = "off"
    /\ t_key = FALSE
    /\ t_hist = <<>>
    /\ t_a = CallAtStart("")
    /\ t_f = CallAtStart(StrBody(<<>>))
    /\ t_out = <<>>

\* The executor with nothing submitted to it.
PoolEmpty ==
    /\ p_sub = 0
    /\ p_queue = 0
    /\ p_threads = 0
    /\ p_proc = 0
    /\ p_call = 0
    /\ p_done = 0

PIdle ==
    /\ p_pc = "off"
    /\ p_total = 0
    /\ PoolEmpty

HIdle ==
    /\ h_pc = "off"
    /\ h_kind = ""
    /\ h_att = 0
    /\ h_hist = <<>>
    /\ h_ret = ""

XIdle ==
    /\ x_pc = "off"
    /\ x_text = <<>>
    /\ x_out = <<>>
    /\ x_again = <<>>

\* The variables of the specifications of single calls, at rest.
OIdle == DIdle /\ TIdle /\ PIdle /\ HIdle /\ XIdle

\* BugFixEngine.__init__(project_root, max_iterations=m)
RInitWith(m) ==
    /\ max_iterations = m
    /\ run_no = 0
    /\ pc = "idle"
    /\ issues = <<>>
    /\ idx = 0
    /\ attempt = 0
    /\ requests = 0
    /\ onlyRetry = TRUE
    /\ llm_ret = [state |-> "none", val |-> StrBody(<<>>)]
    /\ apply_ret = "none"
    /\ validated = {}
    /\ raised_at = 0
    /\ exc = ""
    /\ fix_calls = <<>>
    /\ val_calls = <<>>
    /\ val_ret = "none"
    /\ items = <<>>
    /\ fixed = 0
    /\ failed = 0
    /\ summary = NoSummary
    /\ run_ret = NoReturn
    /\ exit_code = -1

\* BugFixEngine.__init__ with the default of max_iterations
RInit == RInitWith(4)

-----------------------------------------------------------------------------
(* SpecIssue: __eq__ and __hash__ on two Issue records                      *)

\* The first record: one of the base records; the second: any record.
EqBase ==
    {i \in EqIssues : /\ i.slug = "a" /\ i.description = "d1" /\ i.constraints = "c1"
                      /\ i.buggy_code = "x" /\ i.bug_type = "t1" /\ i.bug_message = "m1"}

InitIssue ==
    /\ e_a \in EqBase
    /\ e_b \in EqIssues
    /\ e_compared = FALSE
    /\ e_eq = FALSE
    /\ e_ha = 0
    /\ e_hb = 0
    /\ NIdle
    /\ VIdle
    /\ RInit
    /\ OIdle

\* a == b, hash(a), hash(b)
ECompare ==
    /\ ~e_compared
    /\ e_eq' = IssueEq(e_a, e_b)
    /\ e_ha' = IssueHash(e_a)
    /\ e_hb' = IssueHash(e_b)
    /\ e_compared' = TRUE
    /\ UNCHANGED <<e_a, e_b, nvars, vvars, rvars, ovars>>

\* issue.fixed_code = clean_code (apply_fix), on the first record
ESetFixed ==
    /\ e_compared
    /\ \E c \in {<<>>, <<"p">>, <<"q">>} :
         /\ c # e_a.fixed_code
         /\ e_a' = [e_a EXCEPT !.fixed_code = c]
    /\ e_compared' = FALSE
    /\ UNCHANGED <<e_b, e_eq, e_ha, e_hb, nvars, vvars, rvars, ovars>>

NextIssue == ECompare \/ ESetFixed

SpecIssue == InitIssue /\ [][NextIssue]_vars

-----------------------------------------------------------------------------
(* SpecNorm, SpecTwice: analyze_reports                                     *)

InitNorm ==
    /\ n_reports \in ReportLists
    /\ n_key \in BOOLEAN
    /\ n_run = 1
    /\ n_pc = "iter"
    /\ n_ri = 1
    /\ n_items = <<>>
    /\ n_pending = {}
    /\ n_attempt = <<>>
    /\ n_parsed = <<>>
    /\ n_all = <<>>
    /\ n_res = <<>>
    /\ n_made = <<>>
    /\ EIdle
    /\ VIdle
    /\ RInit
    /\ OIdle

\* What iterating the parsed report yields: the entries of a list, the keys
\* of a mapping (strings, so no dicts).
Iterate(r) ==
    IF r.parse = "mapping" THEN [k \in 1..Len(r.items) |-> NonDictItem] ELSE r.items

\* json.loads raises JSONDecodeError: the report is skipped.
NSkipReport ==
    /\ n_pc = "iter"
    /\ n_ri <= Len(n_reports)
    /\ n_reports[n_ri].blob
    /\ n_reports[n_ri].parse = "invalid"
    /\ n_ri' = n_ri + 1
    /\ UNCHANGED <<n_reports, n_key, n_run, n_pc, n_items, n_pending, n_attempt,
                   n_parsed, n_all, n_res, n_made, evars, vvars, rvars, ovars>>

\* The blob parses to a value that cannot be iterated: "for item in report"
\* raises TypeError inside _parse_custom_report, and nothing catches it.
NRaiseReport ==
    /\ n_pc = "iter"
    /\ n_ri <= Len(n_reports)
    /\ n_reports[n_ri].parse = "scalar"
    /\ n_pc' = "raised"
    /\ UNCHANGED <<n_reports, n_key, n_run, n_ri, n_items, n_pending, n_attempt,
                   n_parsed, n_all, n_res, n_made, evars, vvars, rvars, ovars>>

\* _parse_custom_report returned parsed: all_issues.extend, next report.
AfterReport(its, parsed) ==
    /\ n_all' = n_all \o parsed
    /\ n_made' = Append(n_made, [items |-> its, parsed |-> parsed])
    /\ n_ri' = n_ri + 1
    /\ n_pc' = "iter"
    /\ n_items' = <<>>
    /\ n_pending' = {}
    /\ n_attempt' = <<>>
    /\ n_parsed' = <<>>

\* _parse_custom_report submits one future per item.
NSubmitReport ==
    /\ n_pc = "iter"
    /\ n_ri <= Len(n_reports)
    /\ n_reports[n_ri].parse \in {"list", "mapping"}
    /\ LET its == Iterate(n_reports[n_ri])
       IN  IF Len(its) = 0
           THEN AfterReport(its, <<>>)
           ELSE /\ n_items' = its
                /\ n_pending' = 1..Len(its)
                /\ n_attempt' = [k \in 1..Len(its) |-> 0]
                /\ n_parsed' = <<>>
                /\ n_pc' = "collect"
                /\ UNCHANGED <<n_ri, n_all, n_made>>
    /\ UNCHANGED <<n_reports, n_key, n_run, n_res, evars, vvars, rvars, ovars>>

\* A collecting loop that returns with the first future that completes.
AnyFuture(pending, i) == TRUE

\* The with block and the as_completed loop are left when no future is
\* pending any more: i is the last one.
LastFuture(pending, i) == pending = {i}

\* The future of item i completes with out (<<>> for None); as_completed hands
\* it to the collecting loop, which appends what is truthy. After the last
\* future the pool is left and the report's list returned.
Deliver(i, out) ==
    IF LastFuture(n_pending, i)
    THEN AfterReport(n_items, n_parsed \o out)
    ELSE /\ n_parsed' = n_parsed \o out
         /\ n_pending' = n_pending \ {i}
         /\ UNCHANGED <<n_ri, n_items, n_attempt, n_all, n_made, n_pc>>

\* A worker whose item needs no request: not a dict, an exception caught, a
\* message in the item, or no credential ("Error: API Key missing").
NWorkerDone ==
    /\ n_pc = "collect"
    /\ \E i \in n_pending :
         /\ ItemStage(n_items[i]) = "explain" => ~n_key
         /\ Deliver(i, ProcessSingleItem(n_items[i], "Error: API Key missing"))
    /\ UNCHANGED <<n_reports, n_key, n_run, n_res, evars, vvars, rvars, ovars>>

\* A worker inside analyze_bug posts one request and gets r.
NWorkerRequest ==
    /\ n_pc = "collect"
    /\ n_key
    /\ \E i \in n_pending : \E r \in ExplainResponses :
         /\ ItemStage(n_items[i]) = "explain"
         /\ LET st == AnalyzeBugStep(n_attempt[i], r)
            IN  IF st.ret
                THEN Deliver(i, ProcessSingleItem(n_items[i], st.val))
                ELSE /\ n_attempt' = [n_attempt EXCEPT ![i] = @ + 1]
                     /\ UNCHANGED <<n_ri, n_items, n_pending, n_parsed, n_all,
                                    n_made, n_pc>>
    /\ UNCHANGED <<n_reports, n_key, n_run, n_res, evars, vvars, rvars, ovars>>

\* unique_issues = list(set(all_issues)); return sorted(unique_issues, key=slug)
NReturn ==
    /\ n_pc = "iter"
    /\ n_ri > Len(n_reports)
    /\ \E order \in Orders(SetOf(n_all, Len(n_all))) :
         n_res' = Append(n_res, SortedBySlug(order))
    /\ n_pc' = "returned"
    /\ UNCHANGED <<n_reports, n_key, n_run, n_ri, n_items, n_pending, n_attempt,
                   n_parsed, n_all, n_made, evars, vvars, rvars, ovars>>

\* The caller calls analyze_reports again on the same list.
NAgain ==
    /\ n_pc = "returned"
    /\ n_run = 1
    /\ n_run' = 2
    /\ n_pc' = "iter"
    /\ n_ri' = 1
    /\ n_all' = <<>>
    /\ n_made' = <<>>
    /\ UNCHANGED <<n_reports, n_key, n_items, n_pending, n_attempt, n_parsed,
                   n_res, evars, vvars, rvars, ovars>>

NextNorm ==
    \/ NSkipReport
    \/ NRaiseReport
    \/ NSubmitReport
    \/ NWorkerDone
    \/ NWorkerRequest
    \/ NReturn

\* One call of analyze_reports.
SpecNorm == InitNorm /\ [][NextNorm]_vars

NextTwice == NextNorm \/ NAgain

\* Two calls of analyze_reports, one after the other, on the same list.
SpecTwice == InitNorm /\ [][NextTwice]_vars

-----------------------------------------------------------------------------
(* SpecDetect: the worker's choice of language for one item                 *)

InitDetect ==
    /\ d_pc = "ready"
    /\ d_item \in DetectItems
    /\ d_text \in DetectTexts
    /\ d_lang = ""
    /\ TIdle
    /\ PIdle
    /\ HIdle
    /\ XIdle
    /\ EIdle
    /\ NIdle
    /\ VIdle
    /\ RInit

\* process_single_item up to language=str(detected_lang)
DNormalize ==
    /\ d_pc = "ready"
    /\ d_lang' = IssueLanguage(d_item, d_text)
    /\ d_pc' = "ended"
    /\ UNCHANGED <<d_item, d_text, tvars, pvars, evars, nvars, vvars, rvars, hvars, xvars>>

NextDetect == DNormalize

SpecDetect == InitDetect /\ [][NextDetect]_vars

\* An item without a tag and with any code string: the classifier decides.
InitClassify ==
    /\ d_pc = "ready"
    /\ d_item = [EmptyItem EXCEPT !.slug = "a", !.explanations = "m1"]
    /\ d_text \in ClassifyTexts
    /\ d_lang = ""
    /\ TIdle
    /\ PIdle
    /\ HIdle
    /\ XIdle
    /\ EIdle
    /\ NIdle
    /\ VIdle
    /\ RInit

SpecClassify == InitClassify /\ [][NextDetect]_vars

-----------------------------------------------------------------------------
(* SpecRetry: analyze_bug and _call_llm fed the same answers                *)

InitRetry ==
    /\ t_pc = "ready"
    /\ t_key \in BOOLEAN
    /\ t_hist = <<>>
    /\ t_a = CallAtStart("")
    /\ t_f = CallAtStart(StrBody(<<>>))
    /\ t_out = <<>>
    /\ DIdle
    /\ PIdle
    /\ HIdle
    /\ XIdle
    /\ EIdle
    /\ NIdle
    /\ VIdle
    /\ RInit

\* The call c after one more request answered with st, the result of its
\* loop body.
Requested(c, st) ==
    [att |-> IF st.ret THEN c.att ELSE c.att + 1, ret |-> st.ret, val |-> st.val,
     reqs |-> c.reqs + 1]

\* Both calls are entered for ItemB, which carries no explanation.
\* analyze_bug returns at once without DASHSCOPE_API_KEY; _call_llm has no
\* such test.
TEnter ==
    /\ t_pc = "ready"
    /\ t_pc' = "run"
    /\ IF t_key
       THEN UNCHANGED <<t_a, t_out>>
       ELSE /\ t_a' = [t_a EXCEPT !.ret = TRUE, !.val = "Error: API Key missing"]
            /\ t_out' = ProcessSingleItem(ItemB, "Error: API Key missing")
    /\ UNCHANGED <<t_key, t_hist, t_f, dvars, pvars, evars, nvars, vvars, rvars, hvars, xvars>>

\* The oracle's next answer k goes to the next request of each call that has
\* not returned.
TRequest ==
    /\ t_pc = "run"
    /\ ~t_a.ret \/ ~t_f.ret
    /\ \E k \in OracleAnswers :
         /\ t_hist' = Append(t_hist, k)
         /\ IF t_a.ret
            THEN UNCHANGED <<t_a, t_out>>
            ELSE LET st == AnalyzeBugStep(t_a.att, ExplainAnswer(k))
                 IN  /\ t_a' = Requested(t_a, st)
                     /\ t_out' = IF st.ret THEN ProcessSingleItem(ItemB, st.val)
                                  ELSE t_out
         /\ IF t_f.ret
            THEN UNCHANGED t_f
            ELSE LET st == CallLlmStep(t_f.att, FixAnswer(k))
                 IN  t_f' = [att |-> st.att, ret |-> st.ret, val |-> st.val,
                            reqs |-> t_f.reqs + 1]
    /\ UNCHANGED <<t_pc, t_key, dvars, pvars, evars, nvars, vvars, rvars, hvars, xvars>>

NextRetry ==
    \/ TEnter
    \/ TRequest

SpecRetry == InitRetry /\ [][NextRetry]_vars

-----------------------------------------------------------------------------
(* SpecPool: the worker pool of _parse_custom_report                        *)

\* ThreadPoolExecutor(max_workers=10)
MaxWorkers == 10

\* An executor that starts a thread for whatever is submitted.
SpawnAlways(n) == TRUE

\* The executor starts another worker thread only below max_workers.
CanSpawn(n) == n < MaxWorkers

InitPool ==
    /\ p_pc = "pool"
    /\ p_total \in 0..MaxItems
    /\ PoolEmpty
    /\ DIdle
    /\ TIdle
    /\ HIdle
    /\ XIdle
    /\ EIdle
    /\ NIdle
    /\ VIdle
    /\ RInit

\* executor.submit(process_single_item, item) for the next item of the
\* report: the item is queued, and a thread is started for it when none is
\* idle; when a thread has been idle the executor may count on it instead.
PSubmit ==
    /\ p_pc = "pool"
    /\ p_sub < p_total
    /\ p_sub' = p_sub + 1
    /\ p_queue' = p_queue + 1
    /\ \/ CanSpawn(p_threads) /\ p_threads' = p_threads + 1
       \/ (~CanSpawn(p_threads) \/ p_done > 0) /\ p_threads' = p_threads
    /\ UNCHANGED <<p_pc, p_total, p_proc, p_call, p_done>>
    /\ UNCHANGED <<dvars, tvars, evars, nvars, vvars, rvars, hvars, xvars>>

\* A worker thread with nothing to do takes an item off the queue and
\* enters process_single_item.
PTake ==
    /\ p_pc = "pool"
    /\ p_queue > 0
    /\ p_threads > p_proc + p_call
    /\ p_queue' = p_queue - 1
    /\ p_proc' = p_proc + 1
    /\ UNCHANGED <<p_pc, p_total, p_sub, p_threads, p_call, p_done>>
    /\ UNCHANGED <<dvars, tvars, evars, nvars, vvars, rvars, hvars, xvars>>

\* An item without a message: its worker enters analyze_bug.
PCallBegin ==
    /\ p_pc = "pool"
    /\ p_proc > 0
    /\ p_proc' = p_proc - 1
    /\ p_call' = p_call + 1
    /\ UNCHANGED <<p_pc, p_total, p_sub, p_queue, p_threads, p_done>>
    /\ UNCHANGED <<dvars, tvars, evars, nvars, vvars, rvars, hvars, xvars>>

\* analyze_bug returns, the worker builds the Issue and its future completes.
PCallEnd ==
    /\ p_pc = "pool"
    /\ p_call > 0
    /\ p_call' = p_call - 1
    /\ p_done' = p_done + 1
    /\ UNCHANGED <<p_pc, p_total, p_sub, p_queue, p_threads, p_proc>>
    /\ UNCHANGED <<dvars, tvars, evars, nvars, vvars, rvars, hvars, xvars>>

\* A worker returns without having asked the oracle.
PDone ==
    /\ p_pc = "pool"
    /\ p_proc > 0
    /\ p_proc' = p_proc - 1
    /\ p_done' = p_done + 1
    /\ UNCHANGED <<p_pc, p_total, p_sub, p_queue, p_threads, p_call>>
    /\ UNCHANGED <<dvars, tvars, evars, nvars, vvars, rvars, hvars, xvars>>

\* as_completed has yielded every future: the with block is left.
PClose ==
    /\ p_pc = "pool"
    /\ p_sub = p_total
    /\ p_done = p_total
    /\ p_pc' = "closed"
    /\ UNCHANGED <<p_total, p_sub, p_queue, p_threads, p_proc, p_call, p_done>>
    /\ UNCHANGED <<dvars, tvars, evars, nvars, vvars, rvars, hvars, xvars>>

NextPool ==
    \/ PSubmit
    \/ PTake
    \/ PCallBegin
    \/ PCallEnd
    \/ PDone
    \/ PClose

SpecPool == InitPool /\ [][NextPool]_vars

-----------------------------------------------------------------------------
(* SpecHang, FairHang: one external call whose collaborator may not answer  *)

ExternalCalls == {"repair", "explain", "cpp", "java"}

\* The timeout argument of the call, in seconds; 0 where none is given:
\* session.post(..., timeout=60), session.post(..., timeout=30), and
\* subprocess.check_call(...) without one.
TimeoutOf(kind) ==
    CASE kind = "repair" -> 60
      [] kind = "explain" -> 30
      [] OTHER -> 0

\* The call is cut off when the collaborator does not answer.
HasTimeout(kind) == TimeoutOf(kind) > 0

\* What a collaborator that answers may answer.
AnswersOf(kind) ==
    IF kind \in {"repair", "explain"} THEN {"200", "429", "500", "exception"}
    ELSE {"ok", "CalledProcessError"}

\* The call after a request that ended as st (a status, or "exception" for
\* what session.post raised, a timeout included): the loop bodies of
\* _call_llm and analyze_bug, the try blocks of the two compile checks.
AfterRequest(kind, att, st) ==
    IF kind = "repair"
    THEN LET r == CallLlmStep(att, [status |-> st, body |-> StrBody(<<"p">>)])
         IN  [ret |-> r.ret, att |-> r.att,
              val |-> IF r.val = StrBody(<<>>) THEN "empty" ELSE "patch"]
    ELSE IF kind = "explain"
    THEN LET r == AnalyzeBugStep(att, [status |-> st, body |-> "m1"])
         IN  [ret |-> r.ret, att |-> att + 1, val |-> r.val]
    ELSE [ret |-> TRUE, att |-> att, val |-> IF st = "ok" THEN "pass" ELSE "fail"]

InitHang ==
    /\ h_pc = "loop"
    /\ h_kind \in ExternalCalls
    /\ h_att = 0
    /\ h_hist = <<>>
    /\ h_ret = ""
    /\ DIdle
    /\ TIdle
    /\ PIdle
    /\ XIdle
    /\ EIdle
    /\ NIdle
    /\ VIdle
    /\ RInit

\* session.post or check_call is entered; the collaborator is one that will
\* answer, or one that never does.
HPost ==
    /\ h_pc = "loop"
    /\ h_pc' \in {"wait", "hung"}
    /\ UNCHANGED <<h_kind, h_att, h_hist, h_ret>>
    /\ UNCHANGED <<dvars, tvars, pvars, xvars, evars, nvars, vvars, rvars>>

\* The request has ended as st: the call returns or goes round its loop.
HEnds(st) ==
    LET r == AfterRequest(h_kind, h_att, st)
    IN  /\ h_hist' = Append(h_hist, st)
        /\ h_att' = r.att
        /\ h_pc' = IF r.ret THEN "ended" ELSE "loop"
        /\ h_ret' = IF r.ret THEN r.val ELSE h_ret
        /\ UNCHANGED h_kind

\* The collaborator answers.
HAnswer ==
    /\ h_pc = "wait"
    /\ \E st \in AnswersOf(h_kind) : HEnds(st)
    /\ UNCHANGED <<dvars, tvars, pvars, xvars, evars, nvars, vvars, rvars>>

\* The timeout of a request that got no answer expires: session.post raises,
\* and the except branch of the loop takes it like any transport failure.
HTimeout ==
    /\ h_pc = "hung"
    /\ HasTimeout(h_kind)
    /\ HEnds("exception")
    /\ UNCHANGED <<dvars, tvars, pvars, xvars, evars, nvars, vvars, rvars>>

NextHang ==
    \/ HPost
    \/ HAnswer
    \/ HTimeout

SpecHang == InitHang /\ [][NextHang]_vars

\* The caller's thread runs, a collaborator that answers does so in the
\* end, and a timeout that is set expires: a step that is due is taken.
FairHang == SpecHang /\ WF_vars(NextHang)

-----------------------------------------------------------------------------
(* SpecExtract: _extract_code_block on one answer, and on its own result    *)

InitExtract ==
    /\ x_pc = "ready"
    /\ x_text \in ExtractTexts
    /\ x_out = <<>>
    /\ x_again = <<>>
    /\ DIdle
    /\ TIdle
    /\ PIdle
    /\ HIdle
    /\ EIdle
    /\ NIdle
    /\ VIdle
    /\ RInit

\* clean_code = self._extract_code_block(fixed_code)
XExtract ==
    /\ x_pc = "ready"
    /\ x_out' = ExtractCodeBlock(x_text)
    /\ x_pc' = "ended"
    /\ UNCHANGED <<x_text, x_again>>
    /\ UNCHANGED <<dvars, tvars, pvars, hvars, evars, nvars, vvars, rvars>>

\* _extract_code_block called on what it returned.
XExtractAgain ==
    /\ x_pc = "ended"
    /\ x_again' = ExtractCodeBlock(x_out)
    /\ x_pc' = "twice"
    /\ UNCHANGED <<x_text, x_out>>
    /\ UNCHANGED <<dvars, tvars, pvars, hvars, evars, nvars, vvars, rvars>>

NextExtract ==
    \/ XExtract
    \/ XExtractAgain

SpecExtract == InitExtract /\ [][NextExtract]_vars

-----------------------------------------------------------------------------
(* SpecVal: Validator.run_tests on one Issue                                *)

InitVal ==
    /\ v_pc = "ready"
    /\ v_issue \in ValIssues
    /\ v_env \in ValidatorEnvs
    /\ v_res = Ended("none", <<>>, 0, "")
    /\ EIdle
    /\ NIdle
    /\ RInit
    /\ OIdle

\* validator.run_tests(issue)
VRunTests ==
    /\ v_pc = "ready"
    /\ v_res' = RunTests(v_issue, v_env)
    /\ v_pc' = "ended"
    /\ UNCHANGED <<v_issue, v_env, evars, nvars, rvars, ovars>>

NextVal == VRunTests

SpecVal == InitVal /\ [][NextVal]_vars

-----------------------------------------------------------------------------
(* Spec: run.py main and BugFixEngine.run                                   *)

Init ==
    /\ EIdle
    /\ NIdle
    /\ VIdle
    /\ OIdle
    /\ \E m \in MaxIterationsValues : RInitWith(m)

\* run() without DASHSCOPE_API_KEY: logs the error and returns None.
RunNoKey ==
    /\ pc = "idle"
    /\ pc' = "returned"
    /\ run_no' = run_no + 1
    /\ summary' = NoSummary
    /\ run_ret' = ReturnsNone
    /\ UNCHANGED <<max_iterations, issues, idx, attempt, requests, onlyRetry,
                   llm_ret, apply_ret, validated, raised_at, exc, fix_calls,
                   val_calls, val_ret, items, fixed, failed, exit_code,
                   evars, nvars, vvars, ovars>>

\* run() up to the loop: the normalizer's result, one of pool, becomes the
\* Issues of the run; fixed = 0, failed = 0. self.reporter is the one made
\* by __init__: its items are left as they are.
RunBeginFrom(pool) ==
    /\ pc = "idle"
    /\ \E iss \in pool :
         /\ issues' = iss
         /\ fix_calls' = [k \in 1..Len(iss) |-> 0]
         /\ val_calls' = [k \in 1..Len(iss) |-> 0]
    /\ run_no' = run_no + 1
    /\ idx' = 1
    /\ fixed' = 0
    /\ failed' = 0
    /\ pc' = "loop"
    /\ attempt' = 0
    /\ requests' = 0
    /\ onlyRetry' = TRUE
    /\ llm_ret' = [state |-> "none", val |-> StrBody(<<>>)]
    /\ apply_ret' = "none"
    /\ validated' = {}
    /\ raised_at' = 0
    /\ exc' = ""
    /\ val_ret' = "none"
    /\ summary' = NoSummary
    /\ run_ret' = NoReturn
    /\ UNCHANGED <<max_iterations, items, exit_code, evars, nvars, vvars, ovars>>

RunBegin == RunBeginFrom(IssueLists)

\* A loop that hands every Issue from i on to the fixer at once.
StartedAhead(calls, i) ==
    [k \in DOMAIN calls |-> IF k >= i THEN calls[k] + 1 ELSE calls[k]]

\* fix_attempted = self.fixer.apply_fix(issue): the call for Issue i begins.
Started(calls, i) == [calls EXCEPT ![i] = @ + 1]

\* The loop takes the next Issue and enters apply_fix and _call_llm.
BeginFix ==
    /\ pc = "loop"
    /\ idx <= Len(issues)
    /\ pc' = "llm"
    /\ attempt' = 0
    /\ requests' = 0
    /\ onlyRetry' = TRUE
    /\ llm_ret' = [state |-> "pending", val |-> StrBody(<<>>)]
    /\ apply_ret' = "pending"
    /\ val_ret' = "none"
    /\ fix_calls' = Started(fix_calls, idx)
    /\ UNCHANGED <<max_iterations, run_no, issues, idx, validated, raised_at, exc,
                   val_calls, items, fixed, failed, summary, run_ret, exit_code,
                   evars, nvars, vvars, ovars>>

\* The loop staying on the Issue whose outcome it has just recorded.
StayOnIssue(i) == i

\* for idx, issue in enumerate(issues, 1): once the outcome of Issue i is
\* recorded the loop goes on to the next Issue, whatever max_iterations is.
AfterOutcome(i) == i + 1

\* An apply_fix that rewrites the message along with the patch.
WithFixAndMessage(issue, code) ==
    [issue EXCEPT !.fixed_code = code, !.bug_message = "fixed"]

\* issue.fixed_code = clean_code
WithFix(issue, code) == [issue EXCEPT !.fixed_code = code]

\* The rest of apply_fix and of the loop body once _call_llm returned b.
AfterCallLlm(b) ==
    /\ llm_ret' = [state |-> "returned", val |-> b]
    /\ apply_ret' = ApplyFixOutcome(b)
    /\ IF ApplyFixOutcome(b) = "True"
       THEN \* issue.fixed_code = clean_code; return True
            /\ issues' = [issues EXCEPT ![idx] = WithFix(@, ExtractCodeBlock(b.v))]
            /\ pc' = "validate"
            /\ UNCHANGED <<idx, raised_at, exc, items, failed>>
       ELSE IF ApplyFixOutcome(b) = "False"
       THEN \* return False; the else branch of run records the failure
            /\ items' = AddItem(items, Payload(issues[idx], "failed",
                                                "auto-fixer failed to generate code"))
            /\ failed' = failed + 1
            /\ idx' = AfterOutcome(idx)
            /\ pc' = "loop"
            /\ UNCHANGED <<issues, raised_at, exc>>
       ELSE \* the TypeError leaves apply_fix and run
            /\ raised_at' = idx
            /\ exc' = "TypeError"
            /\ pc' = "aborted"
            /\ UNCHANGED <<issues, idx, items, failed>>

\* One session.post of _call_llm and what the loop body does with the answer.
LlmRequest ==
    /\ pc = "llm"
    /\ \E r \in FixResponses :
         LET st == CallLlmStep(attempt, r)
         IN  /\ requests' = requests + 1
             /\ onlyRetry' = (onlyRetry /\ r.status \in {"429", "exception"})
             /\ attempt' = st.att
             /\ IF st.ret
                THEN AfterCallLlm(st.val)
                ELSE UNCHANGED <<pc, issues, idx, llm_ret, apply_ret, raised_at,
                                 exc, items, failed>>
    /\ UNCHANGED <<max_iterations, run_no, validated, fix_calls, val_calls, val_ret,
                   fixed, summary, run_ret, exit_code, evars, nvars, vvars, ovars>>

\* validator.run_tests(issue) and the branch of run that records the verdict.
Validate ==
    /\ pc = "validate"
    /\ \E env \in ValidatorEnvs :
         LET v == RunTests(issues[idx], env)
         IN  /\ validated' = validated \cup {idx}
             /\ val_calls' = [val_calls EXCEPT ![idx] = @ + 1]
             /\ val_ret' = v.out
             /\ IF v.out = "pass"
                THEN /\ items' = AddItem(items, Payload(issues[idx], "fixed", NoReason))
                     /\ fixed' = fixed + 1
                     /\ idx' = AfterOutcome(idx)
                     /\ pc' = "loop"
                     /\ UNCHANGED <<failed, raised_at, exc>>
                ELSE IF v.out = "fail"
                THEN /\ items' = AddItem(items, Payload(issues[idx], "failed",
                                                         "validation failed"))
                     /\ failed' = failed + 1
                     /\ idx' = AfterOutcome(idx)
                     /\ pc' = "loop"
                     /\ UNCHANGED <<fixed, raised_at, exc>>
                ELSE \* the exception leaves run_tests and run
                     /\ raised_at' = idx
                     /\ exc' = v.exc
                     /\ pc' = "aborted"
                     /\ UNCHANGED <<items, fixed, failed, idx>>
    /\ UNCHANGED <<max_iterations, run_no, issues, attempt, requests, onlyRetry,
                   llm_ret, apply_ret, fix_calls, summary, run_ret, exit_code,
                   evars, nvars, vvars, ovars>>

\* After the loop: reporter.write(fixed, failed) builds the summary over
\* self.items, and run returns fixed, failed and the two report texts.
Finish ==
    /\ pc = "loop"
    /\ idx > Len(issues)
    /\ summary' = Summary(items, fixed, failed)
    /\ run_ret' = ReturnsTuple(fixed, failed)
    /\ pc' = "done"
    /\ UNCHANGED <<max_iterations, run_no, issues, idx, attempt, requests,
                   onlyRetry, llm_ret, apply_ret, validated, raised_at, exc,
                   fix_calls, val_calls, val_ret, items, fixed, failed, exit_code,
                   evars, nvars, vvars, ovars>>

\* main of run.py once engine.run returned: the unpacking and sys.exit.
MainExits ==
    /\ pc \in {"done", "returned"}
    /\ exit_code' = MainExit(run_ret)
    /\ pc' = "exited"
    /\ UNCHANGED <<max_iterations, run_no, issues, idx, attempt, requests,
                   onlyRetry, llm_ret, apply_ret, validated, raised_at, exc,
                   fix_calls, val_calls, val_ret, items, fixed, failed, summary,
                   run_ret, evars, nvars, vvars, ovars>>

\* main of run.py when an exception left engine.run.
MainExitsRaised ==
    /\ pc = "aborted"
    /\ exit_code' \in MainExitRaised(exc)
    /\ pc' = "exited"
    /\ UNCHANGED <<max_iterations, run_no, issues, idx, attempt, requests,
                   onlyRetry, llm_ret, apply_ret, validated, raised_at, exc,
                   fix_calls, val_calls, val_ret, items, fixed, failed, summary,
                   run_ret, evars, nvars, vvars, ovars>>

Next ==
    \/ RunNoKey
    \/ RunBegin
    \/ BeginFix
    \/ LlmRequest
    \/ Validate
    \/ Finish
    \/ MainExits
    \/ MainExitsRaised

Spec == Init /\ [][Next]_vars

\* Nothing in the run waits for anything but its own calls, each of which
\* returns or raises: a step that is due is taken.
FairSpec == Spec /\ WF_vars(Next)

-----------------------------------------------------------------------------
(* SpecAgain: a caller that keeps the engine and calls run() again          *)

\* The engine built with the default max_iterations.
InitAgain == EIdle /\ NIdle /\ VIdle /\ OIdle /\ RInit

\* The normalizer's results taken for these runs: no Issue, or one of slug "a".
AgainLists ==
    {iss \in IssueLists : Len(iss) <= 1 /\ \A k \in 1..Len(iss) : iss[k].slug = "a"}

RunBeginShort == RunBeginFrom(AgainLists)

\* The caller, holding the engine after run() returned or raised, calls
\* engine.run once more.
RunAgain ==
    /\ pc \in {"done", "returned", "aborted"}
    /\ run_no < MaxRuns
    /\ pc' = "idle"
    /\ UNCHANGED <<max_iterations, run_no, issues, idx, attempt, requests,
                   onlyRetry, llm_ret, apply_ret, validated, raised_at, exc,
                   fix_calls, val_calls, val_ret, items, fixed, failed, summary,
                   run_ret, exit_code, evars, nvars, vvars, ovars>>

NextAgain ==
    \/ RunNoKey
    \/ RunBeginShort
    \/ BeginFix
    \/ LlmRequest
    \/ Validate
    \/ Finish
    \/ RunAgain

SpecAgain == InitAgain /\ [][NextAgain]_vars

-----------------------------------------------------------------------------
(* Properties                                                               *)

\* Two records agree on the seven identity fields.
SameIdentity(a, b) ==
    \A k \in 1..Len(IdentityFields) : a[IdentityFields[k]] = b[IdentityFields[k]]

\* C1: when run has ended, every Issue of the run has exactly one outcome
\* record; it is "fixed" only when apply_fix returned True and the validator
\* ran for it, and the validator ran only after apply_fix returned True.
\* (Stated for the runs in which apply_fix itself did not raise.)
C1_ExactlyOneOutcome ==
    (pc \in {"done", "aborted"} /\ apply_ret # "raise") =>
        \A i \in 1..Len(issues) :
            /\ Cardinality({k \in 1..Len(items) : SameIdentity(items[k], issues[i])}) = 1
            /\ \A k \in 1..Len(items) :
                 SameIdentity(items[k], issues[i]) /\ items[k].status = "fixed"
                    => i \in validated

\* C2: a == b holds exactly when the seven identity fields are pairwise
\* equal; equal records have equal hashes; whatever fixed_code the first
\* record is given, the results of == and of hash stay what they are.
C2_IdentityEquality ==
    e_compared =>
        /\ e_eq <=> SameIdentity(e_a, e_b)
        /\ e_eq => e_ha = e_hb
        /\ \A c \in {<<>>, <<"p">>, <<"q">>} :
             /\ IssueEq([e_a EXCEPT !.fixed_code = c], e_b) = e_eq
             /\ IssueHash([e_a EXCEPT !.fixed_code = c]) = e_ha

\* C2 witness: two records compared equal although their fixed_code differs,
\* after fixed_code of the first was assigned.
C2_Witness ==
    /\ e_compared
    /\ e_eq
    /\ e_a.fixed_code = <<"q">>
    /\ e_b.fixed_code = <<"p">>

\* The sequence the running call of analyze_reports returned.
LastResult == n_res[Len(n_res)]

\* C3: the returned sequence has no two entries with the same identity, and
\* has an entry for every Issue any item of any parsed report produced.
C3_UniqueAndComplete ==
    n_pc = "returned" =>
        /\ \A i, j \in 1..Len(LastResult) :
             i < j => ~SameIdentity(LastResult[i], LastResult[j])
        /\ \A k \in 1..Len(n_made) : \A m \in 1..Len(n_made[k].parsed) :
             \E i \in 1..Len(LastResult) : SameIdentity(LastResult[i], n_made[k].parsed[m])

\* C3 witness: a call returned at least two Issues after collapsing
\* duplicates that came from two reports.
C3_Witness ==
    /\ n_pc = "returned"
    /\ Len(n_made) = 2
    /\ Len(LastResult) >= 2
    /\ Len(n_all) > Len(LastResult)

C5_SameSequenceTwice == Len(n_res) = 2 => n_res[1] = n_res[2]

\* An item that process_single_item can turn into an Issue: a mapping whose
\* type list holds only strings and whose snippet is text when the language
\* has to be detected.
WellFormedItem(it) ==
    /\ it.dict
    /\ \A k \in 1..Len(it.type.v) : it.type.v[k] # Num5
    /\ \A k \in 1..Len(it.bug_type.v) : it.bug_type.v[k] # Num5
    /\ it.buggy_code = Num5 => (Truthy(it.lang) \/ Truthy(it.language))

\* C6: of every parsed report, each well-formed item has its Issue in the
\* list the report yields, whatever its siblings did, and the other items
\* contribute nothing.
C6_ItemFailuresIsolated ==
    \A k \in 1..Len(n_made) :
        LET its == n_made[k].items
            out == n_made[k].parsed
        IN  /\ \A j \in 1..Len(its) :
                 WellFormedItem(its[j]) =>
                    \E m \in 1..Len(out) :
                        /\ out[m].slug = PyStr(GetOr(its[j].slug, "UnknownSlug"))
                        /\ out[m].buggy_code = PyStr(GetOr(its[j].buggy_code, ""))
            /\ Len(out) = Cardinality({j \in 1..Len(its) : WellFormedItem(its[j])})

\* C6 witness: a report with an item that raised and a sibling that needed
\* the oracle has yielded the sibling's Issue.
C6_Witness ==
    \E k \in 1..Len(n_made) :
        /\ \E j \in 1..Len(n_made[k].items) :
             n_made[k].items[j].dict /\ ~WellFormedItem(n_made[k].items[j])
        /\ \E j \in 1..Len(n_made[k].items) :
             /\ WellFormedItem(n_made[k].items[j])
             /\ ~Truthy(n_made[k].items[j].explanations)
             /\ ~Truthy(n_made[k].items[j].bug_message)
        /\ Len(n_made[k].parsed) = 1

\* C7: analyze_reports never raises: a report that cannot be used is skipped.
C7_NeverRaises == n_pc # "raised"

C9_ApplyFixNeverRaises ==
    /\ apply_ret \in {"none", "pending", "True", "False"}
    /\ (llm_ret.state = "returned" /\ onlyRetry) =>
            (apply_ret = "False" /\ issues[idx - 1].fixed_code = <<>>)

\* C10: when the validation step of an Issue raised, the run did not end
\* there: the Issue has a "failed" record with a reason.
C10_ExceptionRecorded ==
    (raised_at # 0 /\ raised_at \in validated) =>
        /\ pc # "aborted"
        /\ \E k \in 1..Len(items) :
             /\ SameIdentity(items[k], issues[raised_at])
             /\ items[k].status = "failed"
             /\ items[k].detail # NoReason

\* C11: every run of BugFixEngine.run reaches the reporting step and hands
\* its aggregate to the reporter: whatever the credential, the oracle and the
\* toolchain do, the run eventually is at the point where the report is
\* written and run returns its counts.
C11_EventuallyReports == <>(pc = "done")

\* C12: every summary Reporter.write builds has total_issues equal to
\* total_fixed + total_failed, to the number of outcome records and to the
\* number of Issues normalized for that run, however many times run() was
\* called on the engine; and inside the loop fixed + failed is the number of
\* Issues that already have their outcome.
C12_AggregateConsistent ==
    /\ summary # NoSummary =>
          /\ summary.total_issues = summary.total_fixed + summary.total_failed
          /\ summary.total_issues = Len(items)
          /\ summary.total_issues = Len(issues)
    /\ pc \in {"loop", "llm", "validate"} => fixed + failed = idx - 1

\* C13: run_tests on an Issue whose fixed_code is empty returns fail,
\* whatever the language, and takes no step of any checker on the way: no
\* parse, no exec, no lookup of a compiler, no temp file, no compiler run.
C13_EmptyPatchFails ==
    (v_pc = "ended" /\ v_issue.fixed_code = <<>>) =>
        /\ v_res.out = "fail"
        /\ v_res.ops = <<>>
        /\ v_res.left = 0

\* C13 witness: the call has ended for a cpp Issue with an empty fixed_code
\* where g++ is there and would have accepted the file.
C13_Witness ==
    /\ v_pc = "ended"
    /\ v_issue.fixed_code = <<>>
    /\ v_issue.language = "cpp"
    /\ v_env.tool
    /\ v_env.compile = "ok"
    /\ v_res.out = "fail"

\* C14: for an Issue that run_tests takes for python, with a fixed_code that
\* is not empty, the verdict is fail exactly when the patch does not parse
\* or executing it raises a name-resolution failure, and pass in every other
\* case: a clean execution or any other error raised while executing.
C14_PythonVerdict ==
    (v_pc = "ended" /\ Dispatch(v_issue.language) = "python"
                    /\ v_issue.fixed_code # <<>>) =>
        IF v_env.parse # "ok" \/ v_env.exec = "NameError"
        THEN v_res.out = "fail"
        ELSE v_res.out = "pass"

\* The steps that create a temp artifact or run a compiler.
ToolSteps == {"mktemp", "write", "compile"}

\* C15: for an Issue that run_tests takes for cpp or java, with a fixed_code
\* that is not empty: the lookup of the compiler comes before any temp
\* artifact is created and before any compiler is run; when the compiler is
\* not there the verdict is pass and nothing else was done; when g++ is
\* there the cpp verdict is pass exactly when g++ ran and exited with success.
C15_ToolchainCheckedFirst ==
    (v_pc = "ended" /\ Dispatch(v_issue.language) \in {"cpp", "java"}
                    /\ v_issue.fixed_code # <<>>) =>
        /\ \A k \in 1..Len(v_res.ops) :
              v_res.ops[k] \in ToolSteps => \E j \in 1..(k - 1) : v_res.ops[j] = "which"
        /\ ~v_env.tool =>
              (v_res.out = "pass" /\ v_res.ops = <<"which">> /\ v_res.left = 0)
        /\ (v_env.tool /\ Dispatch(v_issue.language) = "cpp") =>
              (v_res.out = "pass" <=>
                  /\ \E k \in 1..Len(v_res.ops) : v_res.ops[k] = "compile"
                  /\ v_env.compile = "ok")

\* C15 witness: a cpp patch that g++ would have rejected has passed because
\* g++ was not found.
C15_Witness ==
    /\ v_pc = "ended"
    /\ v_issue.language = "cpp"
    /\ v_issue.fixed_code # <<>>
    /\ ~v_env.tool
    /\ v_env.compile = "CalledProcessError"
    /\ v_res.out = "pass"

\* The tags the dispatcher has a checker for.
CheckedLanguages == {"python", "cpp", "c", "c++", "java"}

\* C16: for an Issue with a fixed_code that is not empty and a language tag
\* that is none of python, cpp, c, c++ and java (javascript, unknown, ...),
\* run_tests returns pass and takes no step of any language checker: no
\* class name extraction, no compiler lookup or run, no temp artifact.
C16_OtherLanguagesPass ==
    (v_pc = "ended" /\ v_issue.fixed_code # <<>>
                    /\ Lower(v_issue.language) \notin CheckedLanguages) =>
        /\ v_res.out = "pass"
        /\ v_res.ops = <<>>
        /\ v_res.left = 0

\* C17: when a call of _validate_cpp or _validate_java has ended, by a
\* verdict or by an exception, no temp file or directory it created is
\* left. (Stated for the surroundings in which removing works.)
C17_NoTempLeft ==
    (v_pc = "ended" /\ Dispatch(v_issue.language) \in {"cpp", "java"}
                    /\ v_env.remove = "ok") =>
        v_res.left = 0

\* C18: whatever max_iterations is, run calls apply_fix exactly once for
\* every Issue it has given an outcome, and never more than once for any;
\* it calls run_tests at most once per Issue: nothing is retried.
C18_SingleAttempt ==
    /\ \A i \in 1..Len(fix_calls) : fix_calls[i] <= 1 /\ val_calls[i] <= 1
    /\ pc \in {"loop", "llm", "validate", "done"} =>
          /\ \A i \in 1..Len(issues) : i < idx => fix_calls[i] = 1
          /\ \A i \in 1..Len(issues) : i > idx => fix_calls[i] = 0 /\ val_calls[i] = 0

\* C18 witness: with max_iterations = 4 a run has ended in which the repair
\* of one Issue failed and the patch of another was rejected, each after one
\* call of apply_fix.
C18_Witness ==
    /\ pc = "done"
    /\ max_iterations = 4
    /\ Len(items) = 2
    /\ items[1].detail = "auto-fixer failed to generate code"
    /\ items[2].detail = "validation failed"
    /\ fix_calls = <<1, 1>>
    /\ val_calls = <<0, 1>>

\* The record of the Issue the loop has dealt with last.
LastItem == items[Len(items)]

\* C19: the outcome recorded for an Issue carries the reason of its cause:
\* "repair generation failed" when apply_fix returned nothing, "validation
\* failed" when a patch was there and run_tests rejected it; and it is
\* "fixed" only when run_tests passed the patch.
C19_PrescribedReasons ==
    (pc = "loop" /\ idx > 1) =>
        /\ apply_ret = "False" =>
              (LastItem.status = "failed" /\ LastItem.detail = "repair generation failed")
        /\ (apply_ret = "True" /\ val_ret = "fail") =>
              (LastItem.status = "failed" /\ LastItem.detail = "validation failed")
        /\ LastItem.status = "fixed" => (apply_ret = "True" /\ val_ret = "pass")

\* C20: when the engine's run completed, the process started by run.py
\* exits with success exactly when the aggregate has total_failed = 0, and
\* with failure exactly when total_failed > 0.
C20_ExitReflectsFailures ==
    (pc = "exited" /\ run_ret.t = "tuple") =>
        /\ exit_code = 0 <=> summary.total_failed = 0
        /\ exit_code # 0 <=> summary.total_failed > 0

\* C21: an item without a language tag whose buggy_code starts with
\* "#include <vector>", a newline and "using namespace std;" is normalized
\* to an Issue of language cpp, whatever text follows that start.
C21_CppPrefixIsCpp ==
    (d_pc = "ended" /\ ~Truthy(ItemLang(d_item))) => d_lang = "cpp"

\* A returned _call_llm whose result is the empty string.
ReturnedEmpty(c) == c.ret /\ c.val = StrBody(<<>>)

\* C22: in one repair call, once a request is answered with a status that is
\* neither 200 nor 429, the call has returned the empty result and that
\* request stays its last one, however many attempts were left.
C22_OtherStatusAborts ==
    \A i \in 1..Len(t_hist) :
        (t_hist[i].status = "500" /\ t_f.reqs >= i)
            => (ReturnedEmpty(t_f) /\ t_f.reqs = i)

\* The second request of the repair call was answered 500 with three
\* attempts left, and the oracle went on answering after that.
C22_Witness ==
    /\ Len(t_hist) >= 4
    /\ t_hist[1].status = "429"
    /\ t_hist[2].status = "500"
    /\ ReturnedEmpty(t_f)
    /\ t_f.reqs = 2

\* C23: with the credential set, analyze_bug and _call_llm fed the same
\* answers have posted the same number of requests and have returned after
\* the same answer; in particular both return at once on a status that is
\* neither 200 nor 429.
C23_SameRetryProtocol ==
    t_key => (t_a.ret = t_f.ret /\ t_a.reqs = t_f.reqs)

\* C24: a returned explanation call has posted at most 5 requests and has
\* returned a text, and the worker has built an Issue of the item whose
\* bug_message is that text; this covers the placeholders returned without
\* a credential, after the last retry and on an unusable body.
C24_ExplanationIsText ==
    t_a.ret =>
        /\ t_a.reqs <= AnalyzeMaxRetries
        /\ t_a.val # Absent
        /\ Len(t_out) = 1
        /\ t_out[1].bug_message = t_a.val

\* C25: apply_fix returns True only with a non-empty issue.fixed_code, and
\* the validator is called for no Issue whose patch is empty: an answer of
\* whitespace only or with an empty fenced block counts as a failure to
\* generate code.
C25_EmptyPatchNotValidated ==
    /\ (pc = "validate" /\ apply_ret = "True") => issues[idx].fixed_code # <<>>
    /\ \A k \in validated : issues[k].fixed_code # <<>>

\* Whether the call took the step.
Took(step) == \E k \in 1..Len(v_res.ops) : v_res.ops[k] = step

\* C26: for an Issue that run_tests takes for java, with a fixed_code that is
\* not empty and javac there: the verdict is pass exactly when a class name
\* is found in the patch and javac, run on the file named after the public
\* class, or after the first class when none is public, exits with success;
\* when no class name is found the verdict is fail, no temp directory was
\* made and javac was not run.
C26_JavaVerdict ==
    (v_pc = "ended" /\ Dispatch(v_issue.language) = "java"
                    /\ v_issue.fixed_code # <<>> /\ v_env.tool) =>
        LET code == v_issue.fixed_code
            name == IF Has(code, "public class") THEN "Main"
                    ELSE IF Has(code, "class Solution") THEN "Solution"
                    ELSE ""
        IN  /\ v_res.out = "pass" <=>
                  /\ name # ""
                  /\ v_res.file = name \o ".java"
                  /\ Took("compile")
                  /\ v_env.compile = "ok"
            /\ Took("write") => v_res.file = name \o ".java"
            /\ name = "" =>
                  (v_res.out = "fail" /\ ~Took("mktemp") /\ ~Took("compile"))

\* C26 witness: a patch whose first class is not public and whose public
\* class comes later has passed, compiled from Main.java.
C26_Witness ==
    /\ v_pc = "ended"
    /\ v_issue.language = "java"
    /\ v_issue.fixed_code = <<"class Solution", "\n", "public class Main">>
    /\ v_env.tool
    /\ v_res.out = "pass"
    /\ v_res.file = "Main.java"

\* C27: once the run has its Issues, a step changes them only when apply_fix
\* returns True, and then only the fixed_code of the Issue at hand, in the
\* one apply_fix call made for it and from the empty string; when apply_fix
\* returns False, and in every step of the validator and of the reporter, no
\* field of any Issue changes.
C27_FixedCodeFrame ==
    [][pc # "idle" =>
        \/ issues' = issues
        \/ /\ pc = "llm"
           /\ apply_ret' = "True"
           /\ fix_calls[idx] = 1
           /\ issues[idx].fixed_code = <<>>
           /\ Len(issues') = Len(issues)
           /\ \A k \in 1..Len(issues) : k # idx => issues'[k] = issues[k]
           /\ issues'[idx] = [issues[idx] EXCEPT !.fixed_code = issues'[idx].fixed_code]
      ]_vars

\* C27 witness: apply_fix has returned True and stored a patch in the second
\* Issue, in the only call made for it.
C27_Witness ==
    /\ pc = "validate"
    /\ idx = 2
    /\ apply_ret = "True"
    /\ fix_calls[idx] = 1
    /\ issues[idx].fixed_code # <<>>
    /\ issues[1].fixed_code = <<>>

\* C28: the outcome records are in the order of the normalized Issues, which
\* is the order of their slugs: the k-th record is the one of the k-th Issue,
\* the slugs of the records never go down, and inside the loop the records
\* are those of the Issues before the current one.
C28_OutcomesInIssueOrder ==
    pc \in {"loop", "llm", "validate", "done", "aborted", "exited"} =>
        /\ Len(items) <= Len(issues)
        /\ \A k \in 1..Len(items) : SameIdentity(items[k], issues[k])
        /\ \A k \in 1..(Len(items) - 1) :
              SlugRank(items[k].slug) <= SlugRank(items[k + 1].slug)
        /\ pc \in {"loop", "llm", "validate"} => Len(items) = idx - 1

\* C28 witness: a run over two Issues of different slugs has ended with a
\* record for each.
C28_Witness ==
    /\ pc = "done"
    /\ Len(items) = 2
    /\ items[1].slug # items[2].slug
    /\ items[1].status # items[2].status

\* The Issues whose repair has begun and whose outcome is not recorded.
InProgress == {i \in 1..Len(issues) : fix_calls[i] > 0 /\ Len(items) < i}

\* C29: the Issues are processed one after another: the repair of an Issue
\* has begun only when every Issue before it has its outcome record, so at
\* most one Issue is between the start of its repair and its record, and a
\* validation is under way for that Issue only.
C29_OneIssueAtATime ==
    pc \in {"loop", "llm", "validate", "done", "aborted", "exited"} =>
        /\ \A i \in 1..Len(issues) : fix_calls[i] > 0 => Len(items) >= i - 1
        /\ Cardinality(InProgress) <= 1
        /\ pc \in {"llm", "validate"} => InProgress = {idx}
        /\ pc \in {"loop", "done"} => InProgress = {}

\* C29 witness: the repair of the second Issue is under way, and the first
\* Issue has its record.
C29_Witness ==
    /\ pc = "llm"
    /\ idx = 2
    /\ InProgress = {2}
    /\ Len(items) = 1
    /\ requests > 0

\* C30: while a report is normalized at most 10 items are inside
\* process_single_item at once, and so at most 10 explanation calls are in
\* flight, however many items the report has.
C30_AtMostTenWorkers ==
    /\ p_proc + p_call <= 10
    /\ p_call <= 10
    /\ p_threads <= 10

\* C30 witness: a report of more than 10 items, 10 explanation calls in
\* flight and an item waiting in the queue.
C30_Witness ==
    /\ p_total > 10
    /\ p_call = 10
    /\ p_queue > 0

\* An Issue but for what the oracle told about it.
Sans(issue) == [issue EXCEPT !.bug_message = ""]

\* The items among done that end in an Issue.
Successful(its, done) == {j \in done : ItemStage(its[j]) \notin {"none", "raise"}}

\* parsed holds, for the items its[j] with j in done, one Issue for each that
\* ended in an Issue, and nothing else.
OnePerItem(its, done, parsed) ==
    /\ Len(parsed) = Cardinality(Successful(its, done))
    /\ \A j \in Successful(its, done) :
          Cardinality({k \in 1..Len(parsed) : Sans(parsed[k]) = Sans(MakeIssue(its[j], ""))})
            = Cardinality({h \in Successful(its, done) :
                             Sans(MakeIssue(its[h], "")) = Sans(MakeIssue(its[j], ""))})

C32_ExternalCallsEnd == <>(h_pc = "ended")

\* C33: at both call sites the request answered 200 is the last one of the
\* call: the call has returned the content of the answer, and when the body
\* cannot be used it has returned the empty string (repair) or the
\* placeholder "Analysis format error" (explanation), with no further request.
C33_SuccessEndsLoop ==
    \A i \in 1..Len(t_hist) :
        t_hist[i].status = "200" =>
            /\ t_f.reqs >= i =>
                  /\ t_f.ret
                  /\ t_f.reqs = i
                  /\ t_f.val = IF t_hist[i].content = "malformed" THEN StrBody(<<>>)
                               ELSE FixAnswer(t_hist[i]).body
            /\ t_a.reqs >= i =>
                  /\ t_a.ret
                  /\ t_a.reqs = i
                  /\ t_a.val = IF t_hist[i].content = "malformed"
                               THEN "Analysis format error"
                               ELSE ExplainAnswer(t_hist[i]).body

\* C33 witness: after a 429 the second request of both calls was answered
\* 200 with a body that cannot be used, and both have returned.
C33_Witness ==
    /\ Len(t_hist) = 2
    /\ t_hist[1].status = "429"
    /\ t_hist[2] = [status |-> "200", content |-> "malformed"]
    /\ t_a.ret /\ t_a.reqs = 2 /\ t_a.val = "Analysis format error"
    /\ t_f.ret /\ t_f.reqs = 2 /\ t_f.val = StrBody(<<>>)

\* C34: an item that carries a language tag other than "Unknown" gives an
\* Issue whose language is that tag, whatever its buggy_code looks like; the
\* language is what the classifier makes of the code only for an item with
\* no tag or with the tag "Unknown".
C34_ExplicitTagKept ==
    d_pc = "ended" =>
        LET tag == IF d_item.lang \notin {Absent, ""} THEN d_item.lang
                   ELSE d_item.language
        IN  IF tag \in {Absent, "", "Unknown"}
            THEN d_lang = DetectInText(d_text)
            ELSE d_lang = (IF tag = Num5 THEN "5" ELSE tag)

\* C34 witness: an item tagged java whose code the classifier takes for
\* python has become an Issue of language java.
C34_Witness ==
    /\ d_pc = "ended"
    /\ d_item.lang = "java"
    /\ DetectInText(d_text) = "python"
    /\ d_lang = "java"

\* The four groups of rules, on the first 500 characters h of the text.
PythonSignature(h) ==
    \/ ClassSolutionColon(h)
    \/ Has(h, "def(self")
    \/ Has(h, "import ") /\ Has(h, "from ") /\ ~Has(h, ";")

CppFeature(h, text) ==
    \/ Has(h, "#include")
    \/ Has(h, "using namespace std")
    \/ Has(h, "public:")
    \/ Has(h, "vector<")
    \/ Has(h, "string") /\ Has(text, "->")

JavaFeature(h) ==
    \/ Has(h, "public class")
    \/ Has(h, "public method(")
    \/ Has(h, "System.out.")

PythonFallback(h) == Has(h, ":") /\ ~Has(h, "{") /\ ~Has(h, ";")

\* C35: the classifier answers for every code string, and its answer is
\* that of the first group that matches, in the order python signatures, cpp
\* rules, java rules, python fallback (a colon, no brace, no semicolon),
\* else Unknown: a text matching a group is never classified by a later one.
C35_FirstMatchWins ==
    d_pc = "ended" =>
        LET h == Header(d_text)
        IN  /\ d_lang \in {"python", "cpp", "java", "Unknown"}
            /\ d_lang = IF d_text = <<>> THEN "Unknown"
                        ELSE IF PythonSignature(h) THEN "python"
                        ELSE IF CppFeature(h, d_text) THEN "cpp"
                        ELSE IF JavaFeature(h) THEN "java"
                        ELSE IF PythonFallback(h) THEN "python"
                        ELSE "Unknown"

\* C35 witness: a text that matches a python signature, a cpp rule and a
\* java rule has been classified as python.
C35_Witness ==
    /\ d_pc = "ended"
    /\ PythonSignature(Header(d_text))
    /\ CppFeature(Header(d_text), d_text)
    /\ JavaFeature(Header(d_text))
    /\ d_lang = "python"

\* A language tag after an opening fence: what stands between the fence
\* and the end of its line.
LanguageTag(f) == f \notin Whitespace \cup {Fence}

\* An opening fence at fragment i, with or without a language tag, with LF
\* or CRLF after it: the index of its line end, or 0.
BlockOpens(text, i) ==
    IF i > Len(text) \/ text[i] # Fence THEN 0
    ELSE LET a == IF i + 1 <= Len(text) /\ LanguageTag(text[i + 1]) THEN i + 2 ELSE i + 1
             b == IF a <= Len(text) /\ text[a] = "\r" THEN a + 1 ELSE a
         IN  IF b <= Len(text) /\ text[b] = "\n" THEN b ELSE 0

\* The opening fences of the fenced blocks of the text: each has a fence
\* that closes it.
Blocks(text) ==
    {i \in 1..Len(text) :
        /\ BlockOpens(text, i) > 0
        /\ \E j \in (BlockOpens(text, i) + 1)..Len(text) : text[j] = Fence}

\* The trimmed content of the first fenced block; the trimmed text without one.
FirstBlockOrText(text) ==
    IF Blocks(text) = {} THEN Strip(text)
    ELSE LET i == CHOOSE k \in Blocks(text) : \A j \in Blocks(text) : k <= j
             from == BlockOpens(text, i) + 1
             to == CHOOSE j \in from..Len(text) :
                       text[j] = Fence /\ \A m \in from..(j - 1) : text[m] # Fence
         IN  Strip(SubSeq(text, from, to - 1))

\* C36: _extract_code_block returns the trimmed content of the first fenced
\* block of the text, whether the opening fence carries a language tag or
\* not and whether LF or CRLF follows it, and the trimmed text when there is
\* no fenced block; called on a result without a fence it returns that result.
C36_FirstFencedBlock ==
    /\ x_pc \in {"ended", "twice"} => x_out = FirstBlockOrText(x_text)
    /\ (x_pc = "twice" /\ \A k \in 1..Len(x_out) : x_out[k] # Fence) => x_again = x_out

====
